---- MODULE Spec2Model ----
(***************************************************************************)
(* A model of the L-Store style relational engine of this repository:      *)
(* columnar base/tail pages, page directory, version chains and B+-tree    *)
(* primary-key index (lstore/table.py, lstore/query.py, lstore/index.py,   *)
(* lstore/page.py), the no-wait lock manager (lstore/lock.py), and the     *)
(* Strict-2PL transactions run by worker threads (lstore/transaction.py,   *)
(* lstore/transaction_worker.py), with the save/load cycle of lstore/db.py. *)
(*                                                                         *)
(* Python's None is the empty sequence, a present value v is <<v>>.        *)
(* Python lists are sequences; a 0-based index i of the code is i + 1 here. *)
(***************************************************************************)
EXTENDS Integers, Sequences, FiniteSets, TLC

None == <<>>
Some(v) == <<v>>
Val(o) == o[1]

\* ---------------------------------------------------------------- bounds
\* Number of columns of the table (column 0 is the primary key).
num_columns == 2
\* Largest primary-key value the direct calls of SpecSeq use.
MaxKey == 3
\* Number of insert calls of a SpecSeq behaviour.
MaxInserts == 4
\* Number of successful update calls of a SpecSeq behaviour.
MaxUpdates == 1
\* TransactionWorker.__run: max_retries, the number of run() calls after which the
\* worker gives a transaction up. The code's ceiling is 100; the model scales it down.
max_retries == 2
\* Number of update calls of a SpecVer behaviour, over all records.
MaxVersions == 3
\* Longest ledger (list of granted locks) of one transaction in a SpecLock behaviour.
MaxLedger == 2

\* ------------------------------------------------------- program constants
\* Table(name, num_columns, key): index of the primary-key column.
key == 0
\* Page.has_capacity: slots per page.
PageCapacity == 512
\* BPlusTree(order=4).
order == 4

Cols == 0 .. (num_columns - 1)

Max(S) == CHOOSE x \in S : \A y \in S : y <= x

InsertAt(s, i, e) == SubSeq(s, 1, i - 1) \o <<e>> \o SubSeq(s, i, Len(s))

\* ------------------------------------------------------------ lstore/page.py
\* A page is the sequence of its written slots; num_records is its length.
NewPage == <<>>

has_capacity(page) == Len(page) < PageCapacity

\* Page.write: append when there is room, otherwise leave the page as it is.
PageWrite(page, value) == IF has_capacity(page) THEN Append(page, value) ELSE page

\* Page.read(slot), slot 0-based.
PageRead(page, slot) == page[slot + 1]

\* ----------------------------------------------------------- lstore/index.py
\* Nodes live in a heap (a sequence); a node is named by its position.
\* A leaf holds <<value, rid>> pairs, an internal node separator values.
NewNode(leaf) == [is_leaf |-> leaf, keys |-> <<>>, children |-> <<>>, next |-> None]

NewTree == [root |-> 1, nodes |-> <<NewNode(TRUE)>>]

\* A faulty split that does not link the split leaf to its new right sibling:
\* C39 depends on the leaf chain the split below maintains.
split_child_without_link(nodes, p, index) ==
    LET nid     == nodes[p].children[index + 1]
        node    == nodes[nid]
        mid     == order \div 2
        newid   == Len(nodes) + 1
        n       == Len(node.keys)
        split_key == IF node.is_leaf THEN node.keys[mid + 1][1] ELSE node.keys[mid + 1]
        new_node == [is_leaf  |-> node.is_leaf,
                     keys     |-> IF node.is_leaf THEN SubSeq(node.keys, mid + 1, n)
                                  ELSE SubSeq(node.keys, mid + 2, n),
                     children |-> IF node.is_leaf THEN <<>>
                                  ELSE SubSeq(node.children, mid + 2, Len(node.children)),
                     next     |-> IF node.is_leaf THEN node.next ELSE None]
        node2   == [node EXCEPT !.keys = SubSeq(node.keys, 1, mid),
                                !.children = IF node.is_leaf THEN @ ELSE SubSeq(@, 1, mid + 1)]
        parent2 == [nodes[p] EXCEPT !.keys = InsertAt(@, index + 1, split_key),
                                    !.children = InsertAt(@, index + 2, newid)]
    IN  Append([nodes EXCEPT ![nid] = node2, ![p] = parent2], new_node)

\* BPlusTree._split_child(parent, index), index 0-based.
split_child(nodes, p, index) ==
    LET nid     == nodes[p].children[index + 1]
        node    == nodes[nid]
        mid     == order \div 2
        newid   == Len(nodes) + 1
        n       == Len(node.keys)
        split_key == IF node.is_leaf THEN node.keys[mid + 1][1] ELSE node.keys[mid + 1]
        new_node == [is_leaf  |-> node.is_leaf,
                     keys     |-> IF node.is_leaf THEN SubSeq(node.keys, mid + 1, n)
                                  ELSE SubSeq(node.keys, mid + 2, n),
                     children |-> IF node.is_leaf THEN <<>>
                                  ELSE SubSeq(node.children, mid + 2, Len(node.children)),
                     next     |-> IF node.is_leaf THEN node.next ELSE None]
        node2   == [node EXCEPT !.keys = SubSeq(node.keys, 1, mid),
                                !.children = IF node.is_leaf THEN @ ELSE SubSeq(@, 1, mid + 1),
                                !.next = IF node.is_leaf THEN Some(newid) ELSE @]
        parent2 == [nodes[p] EXCEPT !.keys = InsertAt(@, index + 1, split_key),
                                    !.children = InsertAt(@, index + 2, newid)]
    IN  Append([nodes EXCEPT ![nid] = node2, ![p] = parent2], new_node)

\* Number of leading leaf entries whose value is < k (the while loop of the leaf branch).
LeafPos(keys, k) == Cardinality({j \in 1 .. Len(keys) : \A m \in 1 .. j : keys[m][1] < k})

\* Number of leading separators s with k > s (insert_non_full, locate_range descent).
DescendGT(keys, k) == Cardinality({j \in 1 .. Len(keys) : \A m \in 1 .. j : k > keys[m]})

\* Number of leading separators s with k >= s (locate descent).
DescendGE(keys, k) == Cardinality({j \in 1 .. Len(keys) : \A m \in 1 .. j : k >= keys[m]})

RECURSIVE insert_non_full(_, _, _, _)
insert_non_full(nodes, n, k, rid) ==
    IF nodes[n].is_leaf
    THEN [nodes EXCEPT ![n].keys = InsertAt(@, LeafPos(@, k) + 1, <<k, rid>>)]
    ELSE LET i  == DescendGT(nodes[n].keys, k)
             full == Len(nodes[nodes[n].children[i + 1]].keys) = order - 1
             nodes2 == IF full THEN split_child(nodes, n, i) ELSE nodes
             i2 == IF full /\ k > nodes2[n].keys[i + 1] THEN i + 1 ELSE i
         IN  insert_non_full(nodes2, nodes2[n].children[i2 + 1], k, rid)

\* BPlusTree.insert(key, rid).
BPlusTree_insert(tree, k, rid) ==
    IF Len(tree.nodes[tree.root].keys) = order - 1
    THEN LET newroot == Len(tree.nodes) + 1
             withroot == Append(tree.nodes,
                                [NewNode(FALSE) EXCEPT !.children = <<tree.root>>])
             nodes2 == split_child(withroot, newroot, 0)
         IN  [root |-> newroot, nodes |-> insert_non_full(nodes2, newroot, k, rid)]
    ELSE [tree EXCEPT !.nodes = insert_non_full(tree.nodes, tree.root, k, rid)]

RECURSIVE FindLeafGE(_, _, _)
FindLeafGE(nodes, n, k) ==
    IF nodes[n].is_leaf THEN n
    ELSE FindLeafGE(nodes, nodes[n].children[DescendGE(nodes[n].keys, k) + 1], k)

RECURSIVE FindLeafGT(_, _, _)
FindLeafGT(nodes, n, k) ==
    IF nodes[n].is_leaf THEN n
    ELSE FindLeafGT(nodes, nodes[n].children[DescendGT(nodes[n].keys, k) + 1], k)

RECURSIVE RidsEq(_, _)
RidsEq(keys, k) ==
    IF keys = <<>> THEN <<>>
    ELSE (IF Head(keys)[1] = k THEN <<Head(keys)[2]>> ELSE <<>>) \o RidsEq(Tail(keys), k)

\* BPlusTree.locate(key): the rids of the entries equal to key in the leaf reached.
BPlusTree_locate(tree, k) ==
    RidsEq(tree.nodes[FindLeafGE(tree.nodes, tree.root, k)].keys, k)

\* The scan of one leaf in locate_range: [rids collected, stopped by a value > end].
RECURSIVE ScanLeaf(_, _, _)
ScanLeaf(keys, start, end) ==
    IF keys = <<>> THEN [rids |-> <<>>, stop |-> FALSE]
    ELSE LET k == Head(keys)[1]
         IN  IF start <= k /\ k <= end
             THEN LET r == ScanLeaf(Tail(keys), start, end)
                  IN  [rids |-> <<Head(keys)[2]>> \o r.rids, stop |-> r.stop]
             ELSE IF k > end THEN [rids |-> <<>>, stop |-> TRUE]
             ELSE ScanLeaf(Tail(keys), start, end)

RECURSIVE WalkLeaves(_, _, _, _)
WalkLeaves(nodes, n, start, end) ==
    LET r == ScanLeaf(nodes[n].keys, start, end)
    IN  IF r.stop \/ nodes[n].next = None THEN r.rids
        ELSE r.rids \o WalkLeaves(nodes, Val(nodes[n].next), start, end)

\* BPlusTree.locate_range(start, end).
BPlusTree_locate_range(tree, start, end) ==
    WalkLeaves(tree.nodes, FindLeafGT(tree.nodes, tree.root, start), start, end)

\* Index.locate(column, value): the first rid found, or None. Only the primary-key
\* column has a tree (Table.__init__ calls create_index(self.key) alone).
Index_locate(tbl, column, value) ==
    IF column # key THEN None
    ELSE LET result == BPlusTree_locate(tbl.index, value)
         IN  IF result # <<>> THEN Some(result[1]) ELSE None

\* Index.locate_range(begin, end, column).
Index_locate_range(tbl, begin, end, column) ==
    IF column # key THEN <<>> ELSE BPlusTree_locate_range(tbl.index, begin, end)

\* ----------------------------------------------------------- lstore/table.py
\* Table.__init__: one empty base and tail page per column, no record, an empty index.
NewTable ==
    [base_page      |-> [c \in Cols |-> <<NewPage>>],
     tail_page      |-> [c \in Cols |-> <<NewPage>>],
     page_directory |-> <<>>,
     version_chain  |-> <<>>,
     rid_counter    |-> 0,
     index          |-> NewTree]

\* The page list of one column after appending value to its last page
\* (a new page first when the last one is full).
AppendSlot(pages, value) ==
    LET pages2 == IF has_capacity(pages[Len(pages)]) THEN pages ELSE Append(pages, NewPage)
    IN  [pages2 EXCEPT ![Len(pages2)] = PageWrite(@, value)]

\* (page_index, slot) of the last written slot of a column, both 0-based.
LastSlot(pages) == <<Len(pages) - 1, Len(pages[Len(pages)]) - 1>>

\* Table.read_column(col_idx, page_idx, slot_idx).
read_column(tbl, c, loc) == PageRead(tbl.base_page[c][loc[1] + 1], loc[2])

\* Table.insert_row(columns) run without interruption: [table, rid].
insert_row(tbl, columns) ==
    LET rid   == tbl.rid_counter + 1
        base2 == [c \in Cols |-> AppendSlot(tbl.base_page[c], columns[c + 1])]
        page_positions == [i \in 1 .. num_columns |-> LastSlot(base2[i - 1])]
    IN  [table |-> [tbl EXCEPT !.rid_counter = rid,
                               !.base_page = base2,
                               !.page_directory = (rid :> page_positions) @@ @,
                               !.index = BPlusTree_insert(@, columns[key + 1], rid)],
         rid   |-> Some(rid)]

\* ----------------------------------------------------------- lstore/query.py
\* Query.insert(*columns): [table, result], and the rid insert_row returned.
Query_insert(tbl, columns) ==
    LET r == insert_row(tbl, columns)
    IN  [table |-> r.table, result |-> r.rid # None, rid |-> r.rid]

\* A faulty delete that drops the version chain of the record too: C24 depends on
\* the delete below removing the page-directory entry only.
Query_delete_dropping_versions(tbl, primary_key) ==
    LET rid == Index_locate(tbl, key, primary_key)
    IN  IF rid = None \/ Val(rid) \notin DOMAIN tbl.page_directory
        THEN [table |-> tbl, result |-> FALSE]
        ELSE [table |-> [tbl EXCEPT !.page_directory =
                            [r \in DOMAIN @ \ {Val(rid)} |-> @[r]],
                                    !.version_chain =
                            [r \in DOMAIN @ \ {Val(rid)} |-> @[r]]],
              result |-> TRUE]

\* Query.delete(primary_key): [table, result].
Query_delete(tbl, primary_key) ==
    LET rid == Index_locate(tbl, key, primary_key)
    IN  IF rid = None \/ Val(rid) \notin DOMAIN tbl.page_directory
        THEN [table |-> tbl, result |-> FALSE]
        ELSE [table |-> [tbl EXCEPT !.page_directory =
                            [r \in DOMAIN @ \ {Val(rid)} |-> @[r]]],
              result |-> TRUE]

\* Query.select(search_key, search_key_index, projected_columns_index):
\* the list of records found (empty, or one record).
Query_select(tbl, search_key, search_key_index, projected) ==
    LET rid == Index_locate(tbl, search_key_index, search_key)
    IN  IF rid = None \/ Val(rid) \notin DOMAIN tbl.page_directory
        THEN <<>>
        ELSE LET locations == tbl.page_directory[Val(rid)]
             IN  <<[rid     |-> Val(rid),
                    key     |-> search_key,
                    columns |-> [i \in 1 .. num_columns |->
                                   IF projected[i] = 1
                                   THEN Some(read_column(tbl, i - 1, locations[i]))
                                   ELSE None]]>>

AllColumns == [i \in 1 .. num_columns |-> 1]

\* A faulty loop that copies the old value to the tail page and leaves the base
\* slot as it is: C23 depends on the overwrite in the loop below.
RECURSIVE UpdateColumns_tail_only(_, _, _, _, _)
UpdateColumns_tail_only(tbl, old_locations, columns, c, tail_locations) ==
    IF c = Len(columns)
    THEN [table |-> tbl, tail_locations |-> tail_locations, raised |-> FALSE]
    ELSE IF columns[c + 1] = None
    THEN UpdateColumns_tail_only(tbl, old_locations, columns, c + 1, tail_locations)
    ELSE IF c >= Len(old_locations)
    THEN [table |-> tbl, tail_locations |-> tail_locations, raised |-> TRUE]
    ELSE LET loc       == old_locations[c + 1]
             old_value == read_column(tbl, c, loc)
             tail2     == AppendSlot(tbl.tail_page[c], old_value)
             tbl2      == [tbl EXCEPT !.tail_page[c] = tail2]
         IN  UpdateColumns_tail_only(tbl2, old_locations, columns, c + 1,
                                     [tail_locations EXCEPT ![c + 1] = LastSlot(tail2)])

\* The loop of Query.update over enumerate(columns) from position c: each non-None
\* column copies the base value to a new tail slot and overwrites the base slot in
\* place. A value given for a column the record does not have raises (IndexError
\* at old_locations[col_idx]) with the earlier columns already written.
RECURSIVE UpdateColumns(_, _, _, _, _)
UpdateColumns(tbl, old_locations, columns, c, tail_locations) ==
    IF c = Len(columns)
    THEN [table |-> tbl, tail_locations |-> tail_locations, raised |-> FALSE]
    ELSE IF columns[c + 1] = None
    THEN UpdateColumns(tbl, old_locations, columns, c + 1, tail_locations)
    ELSE IF c >= Len(old_locations)
    THEN [table |-> tbl, tail_locations |-> tail_locations, raised |-> TRUE]
    ELSE LET loc       == old_locations[c + 1]
             old_value == read_column(tbl, c, loc)
             tail2     == AppendSlot(tbl.tail_page[c], old_value)
             tbl2      == [tbl EXCEPT !.tail_page[c] = tail2,
                                      !.base_page[c][loc[1] + 1][loc[2] + 1] = Val(columns[c + 1])]
         IN  UpdateColumns(tbl2, old_locations, columns, c + 1,
                           [tail_locations EXCEPT ![c + 1] = LastSlot(tail2)])

\* Query.update(primary_key, *columns), columns[i] = None keeps column i: [table, result].
\* An exception of the loop is caught and makes the result False.
Query_update(tbl, primary_key, columns) ==
    LET rid == Index_locate(tbl, key, primary_key)
    IN  IF rid = None \/ Val(rid) \notin DOMAIN tbl.page_directory
        THEN [table |-> tbl, result |-> FALSE]
        ELSE IF /\ columns[key + 1] # None
                /\ Val(columns[key + 1]) # primary_key
                /\ Index_locate(tbl, key, Val(columns[key + 1])) # None
        THEN [table |-> tbl, result |-> FALSE]
        ELSE LET u == UpdateColumns(tbl, tbl.page_directory[Val(rid)], columns, 0,
                                    [i \in 1 .. num_columns |-> None])
                 chain == IF Val(rid) \in DOMAIN u.table.version_chain
                          THEN u.table.version_chain[Val(rid)] ELSE <<>>
             IN  IF u.raised THEN [table |-> u.table, result |-> FALSE]
                 ELSE [table |-> [u.table EXCEPT !.version_chain =
                                     (Val(rid) :> (<<u.tail_locations>> \o chain)) @@ @],
                       result |-> TRUE]

\* A faulty select_version that reads the current values when the version asked
\* for is older than the chain: C37 depends on the clamp in the one below.
Query_select_version_unclamped(tbl, search_key, search_key_index, projected, relative_version) ==
    LET rid == Index_locate(tbl, search_key_index, search_key)
    IN  IF rid = None \/ Val(rid) \notin DOMAIN tbl.page_directory
        THEN <<>>
        ELSE LET pd_copy == tbl.page_directory[Val(rid)]
                 chain   == IF Val(rid) \in DOMAIN tbl.version_chain
                            THEN tbl.version_chain[Val(rid)] ELSE <<>>
                 actual_version ==
                     IF relative_version >= 0 \/ Len(chain) = 0 THEN 0
                     ELSE IF -relative_version - 1 >= Len(chain) THEN 0
                     ELSE relative_version
                 version_idx == -actual_version - 1
                 vc_copy == IF actual_version # 0 /\ version_idx < Len(chain)
                            THEN chain[version_idx + 1]
                            ELSE [i \in 1 .. num_columns |-> None]
                 value(i) ==
                     IF actual_version # 0 /\ vc_copy[i] # None
                     THEN PageRead(tbl.tail_page[i - 1][vc_copy[i][1] + 1], vc_copy[i][2])
                     ELSE read_column(tbl, i - 1, pd_copy[i])
             IN  <<[rid     |-> Val(rid),
                    key     |-> search_key,
                    columns |-> [i \in 1 .. num_columns |->
                                   IF projected[i] = 1 THEN Some(value(i)) ELSE None]]>>

\* Query.select_version(search_key, search_key_index, projected_columns_index,
\* relative_version) for relative_version <= 0: the list holding the one record
\* found, or the empty list where the code returns None. A version older than the
\* chain is clamped to the oldest entry; a projected column whose chain entry is
\* None is read from the base page.
Query_select_version(tbl, search_key, search_key_index, projected, relative_version) ==
    LET rid == Index_locate(tbl, search_key_index, search_key)
    IN  IF rid = None \/ Val(rid) \notin DOMAIN tbl.page_directory
        THEN <<>>
        ELSE LET pd_copy == tbl.page_directory[Val(rid)]
                 chain   == IF Val(rid) \in DOMAIN tbl.version_chain
                            THEN tbl.version_chain[Val(rid)] ELSE <<>>
                 actual_version ==
                     IF relative_version >= 0 \/ Len(chain) = 0 THEN 0
                     ELSE IF -relative_version - 1 >= Len(chain) THEN -Len(chain)
                     ELSE relative_version
                 version_idx == -actual_version - 1
                 vc_copy == IF actual_version # 0 /\ version_idx < Len(chain)
                            THEN chain[version_idx + 1]
                            ELSE [i \in 1 .. num_columns |-> None]
                 value(i) ==
                     IF actual_version # 0 /\ vc_copy[i] # None
                     THEN PageRead(tbl.tail_page[i - 1][vc_copy[i][1] + 1], vc_copy[i][2])
                     ELSE read_column(tbl, i - 1, pd_copy[i])
             IN  <<[rid     |-> Val(rid),
                    key     |-> search_key,
                    columns |-> [i \in 1 .. num_columns |->
                                   IF projected[i] = 1 THEN Some(value(i)) ELSE None]]>>

\* The loop of Query.sum (relative_version = 0) and Query.sum_version over the
\* rids of the range: [output, found]. A rid without page directory entry is
\* skipped; a version older than the chain is clamped to the oldest entry; a chain
\* entry that is None for the column is read from the base page.
RECURSIVE SumValues(_, _, _, _)
SumValues(tbl, rid_list, aggregate_column_index, relative_version) ==
    IF rid_list = <<>> THEN [output |-> 0, found |-> FALSE]
    ELSE LET rid  == Head(rid_list)
             rest == SumValues(tbl, Tail(rid_list), aggregate_column_index, relative_version)
         IN  IF rid \notin DOMAIN tbl.page_directory THEN rest
             ELSE LET c     == aggregate_column_index
                      chain == IF rid \in DOMAIN tbl.version_chain
                               THEN tbl.version_chain[rid] ELSE <<>>
                      version_idx == IF -relative_version - 1 >= Len(chain)
                                     THEN Len(chain) - 1 ELSE -relative_version - 1
                      version_entry == IF relative_version # 0 /\ chain # <<>>
                                       THEN chain[version_idx + 1]
                                       ELSE [i \in 1 .. num_columns |-> None]
                      value == IF version_entry[c + 1] # None
                               THEN PageRead(tbl.tail_page[c][version_entry[c + 1][1] + 1],
                                             version_entry[c + 1][2])
                               ELSE read_column(tbl, c, tbl.page_directory[rid][c + 1])
                  IN  [output |-> value + rest.output, found |-> TRUE]

\* Query.sum(start_range, end_range, aggregate_column_index): the total, or None
\* where the code returns False (no record found in the range).
Query_sum(tbl, start_range, end_range, aggregate_column_index) ==
    LET r == SumValues(tbl, Index_locate_range(tbl, start_range, end_range, key),
                       aggregate_column_index, 0)
    IN  IF r.found THEN Some(r.output) ELSE None

\* Query.sum_version(start_range, end_range, aggregate_column_index,
\* relative_version) for relative_version <= 0.
Query_sum_version(tbl, start_range, end_range, aggregate_column_index, relative_version) ==
    LET r == SumValues(tbl, Index_locate_range(tbl, start_range, end_range, key),
                       aggregate_column_index, relative_version)
    IN  IF r.found THEN Some(r.output) ELSE None

\* The arguments of the update of Query.increment: column set to value, the rest None.
IncrementColumns(column, value) ==
    [i \in 1 .. num_columns |-> IF i = column + 1 THEN Some(value) ELSE None]

\* Query.increment(key, column) with nothing running between its select and its
\* update: [table, result].
Query_increment(tbl, primary_key, column) ==
    LET r == Query_select(tbl, primary_key, key, AllColumns)
    IN  IF r = <<>> THEN [table |-> tbl, result |-> FALSE]
        ELSE Query_update(tbl, primary_key,
                          IncrementColumns(column, Val(r[1].columns[column + 1]) + 1))

\* -------------------------------------------------------------- lstore/db.py
RECURSIVE SortedSeq(_)
SortedSeq(S) ==
    IF S = {} THEN <<>>
    ELSE LET m == CHOOSE x \in S : \A y \in S : x <= y
         IN  <<m>> \o SortedSeq(S \ {m})

\* Database.save_table_data: the files written for one table. The page directory
\* is written entry by entry in dict order, which is ascending rid order when the
\* rows were inserted by one thread; a version entry is written per column as a
\* present flag followed, when present, by the tail location.
save_table_data(tbl) ==
    [base |-> tbl.base_page,
     tail |-> tbl.tail_page,
     page_directory |->
        LET rids == SortedSeq(DOMAIN tbl.page_directory)
        IN  [i \in 1 .. Len(rids) |-> <<rids[i], tbl.page_directory[rids[i]]>>],
     version_chains |->
        LET rids == SortedSeq(DOMAIN tbl.version_chain)
        IN  [i \in 1 .. Len(rids) |->
               <<rids[i],
                 [j \in 1 .. Len(tbl.version_chain[rids[i]]) |->
                    [c \in 1 .. num_columns |->
                       IF tbl.version_chain[rids[i]][j][c] # None
                       THEN <<TRUE>> \o tbl.version_chain[rids[i]][j][c]
                       ELSE <<FALSE>>]]>>]]

\* Index.create_index(key) over a loaded page directory: the entries are inserted
\* in page-directory order, each under the value read from the key column.
RECURSIVE create_index(_, _, _)
create_index(tbl, entries, tree) ==
    IF entries = <<>> THEN tree
    ELSE create_index(tbl, Tail(entries),
                      BPlusTree_insert(tree, read_column(tbl, key, Head(entries)[2][key + 1]),
                                       Head(entries)[1]))

\* Database.load_table_data into a fresh Table: pages, page directory (and the
\* rid counter, set to the largest rid of the directory), version chains, then
\* the primary-key index dropped and rebuilt.
load_table_data(files) ==
    LET pd == [r \in {files.page_directory[i][1] : i \in 1 .. Len(files.page_directory)} |->
                 LET i == CHOOSE i \in 1 .. Len(files.page_directory) :
                               files.page_directory[i][1] = r
                 IN  files.page_directory[i][2]]
        vc == [r \in {files.version_chains[i][1] : i \in 1 .. Len(files.version_chains)} |->
                 LET i == CHOOSE i \in 1 .. Len(files.version_chains) :
                               files.version_chains[i][1] = r
                     versions == files.version_chains[i][2]
                 IN  [j \in 1 .. Len(versions) |->
                        [c \in 1 .. num_columns |->
                           IF versions[j][c][1] THEN Tail(versions[j][c]) ELSE None]]]
        loaded == [NewTable EXCEPT !.base_page = files.base,
                                   !.tail_page = files.tail,
                                   !.page_directory = pd,
                                   !.version_chain = vc,
                                   !.rid_counter = IF DOMAIN pd # {} THEN Max(DOMAIN pd) ELSE @]
    IN  [loaded EXCEPT !.index = create_index(loaded, files.page_directory, NewTree)]

\* ------------------------------------------------------------ lstore/lock.py
\* Lock.__init__.
NewLock == [shared_holders |-> {}, exclusive_holder |-> None]

\* LockManager.__init__: no Lock object yet, an empty ledger.
NewLockManager == [locks |-> <<>>, transaction_locks |-> <<>>]

\* A faulty rule that grants a shared lock whoever holds the exclusive lock:
\* C16 depends on the rule below.
can_grant_shared_always(lock, tid) == TRUE

\* Lock.can_grant_shared.
can_grant_shared(lock, tid) ==
    lock.exclusive_holder = None \/ lock.exclusive_holder = Some(tid)

\* A faulty grant rule that forgets the shared holders: C4 depends on the rule below.
can_grant_exclusive_ignoring_shared(lock, tid) ==
    lock.exclusive_holder = None \/ lock.exclusive_holder = Some(tid)

\* Lock.can_grant_exclusive.
can_grant_exclusive(lock, tid) ==
    IF lock.exclusive_holder = Some(tid) THEN TRUE
    ELSE IF lock.exclusive_holder # None THEN FALSE
    ELSE IF Cardinality(lock.shared_holders) = 0 THEN TRUE
    ELSE IF Cardinality(lock.shared_holders) = 1 /\ tid \in lock.shared_holders THEN TRUE
    ELSE FALSE

\* Lock.acquire_shared: [lock, success].
Lock_acquire_shared(lock, tid) ==
    IF can_grant_shared(lock, tid)
    THEN [lock |-> [lock EXCEPT !.shared_holders = @ \cup {tid}], success |-> TRUE]
    ELSE [lock |-> lock, success |-> FALSE]

\* A faulty upgrade that leaves the transaction in the shared holders: C15 depends
\* on the discard below.
Lock_acquire_exclusive_keeping_shared(lock, tid) ==
    IF can_grant_exclusive(lock, tid)
    THEN [lock |-> [lock EXCEPT !.exclusive_holder = Some(tid)], success |-> TRUE]
    ELSE [lock |-> lock, success |-> FALSE]

\* Lock.acquire_exclusive: [lock, success].
Lock_acquire_exclusive(lock, tid) ==
    IF can_grant_exclusive(lock, tid)
    THEN [lock |-> [lock EXCEPT !.shared_holders = @ \ {tid},
                                !.exclusive_holder = Some(tid)],
          success |-> TRUE]
    ELSE [lock |-> lock, success |-> FALSE]

\* A faulty release that gives up the shared lock only: C18 depends on the release
\* below clearing the exclusive holder too.
Lock_release_shared_only(lock, tid) ==
    [lock EXCEPT !.shared_holders = @ \ {tid}]

\* Lock.release.
Lock_release(lock, tid) ==
    [lock EXCEPT !.shared_holders = @ \ {tid},
                 !.exclusive_holder = IF @ = Some(tid) THEN None ELSE @]

\* LockManager._get_lock: the lock table with a Lock for record_id.
get_lock(locks, record_id) ==
    IF record_id \in DOMAIN locks THEN locks ELSE (record_id :> NewLock) @@ locks

\* The ledger of tid, created empty when missing.
Ledger(lm, tid) ==
    IF tid \in DOMAIN lm.transaction_locks THEN lm.transaction_locks[tid] ELSE <<>>

RECURSIVE WithoutRecord(_, _)
WithoutRecord(ledger, record_id) ==
    IF ledger = <<>> THEN <<>>
    ELSE (IF Head(ledger)[1] # record_id THEN <<Head(ledger)>> ELSE <<>>)
         \o WithoutRecord(Tail(ledger), record_id)

\* LockManager.acquire_shared(transaction_id, record_id): [lm, success].
acquire_shared(lm, tid, record_id) ==
    LET locks2 == get_lock(lm.locks, record_id)
        r      == Lock_acquire_shared(locks2[record_id], tid)
    IN  IF r.success
        THEN [lm |-> [locks |-> [locks2 EXCEPT ![record_id] = r.lock],
                      transaction_locks |->
                          (tid :> Append(Ledger(lm, tid), <<record_id, "SHARED">>))
                          @@ lm.transaction_locks],
              success |-> TRUE]
        ELSE [lm |-> [lm EXCEPT !.locks = locks2], success |-> FALSE]

\* A faulty acquire that writes the ledger entry whether or not the lock was
\* granted: C17 depends on the ledger being written on success only.
acquire_exclusive_recording_refusal(lm, tid, record_id) ==
    LET locks2 == get_lock(lm.locks, record_id)
        r      == Lock_acquire_exclusive(locks2[record_id], tid)
    IN  [lm |-> [locks |-> [locks2 EXCEPT ![record_id] = r.lock],
                 transaction_locks |->
                     (tid :> Append(WithoutRecord(Ledger(lm, tid), record_id),
                                    <<record_id, "EXCLUSIVE">>))
                     @@ lm.transaction_locks],
         success |-> r.success]

\* A faulty acquire that appends the EXCLUSIVE entry and keeps the entries the
\* ledger has for the record: C40 depends on the filter of the one below.
acquire_exclusive_keeping_entries(lm, tid, record_id) ==
    LET locks2 == get_lock(lm.locks, record_id)
        r      == Lock_acquire_exclusive(locks2[record_id], tid)
    IN  IF r.success
        THEN [lm |-> [locks |-> [locks2 EXCEPT ![record_id] = r.lock],
                      transaction_locks |->
                          (tid :> Append(Ledger(lm, tid), <<record_id, "EXCLUSIVE">>))
                          @@ lm.transaction_locks],
              success |-> TRUE]
        ELSE [lm |-> [lm EXCEPT !.locks = locks2], success |-> FALSE]

\* LockManager.acquire_exclusive(transaction_id, record_id): [lm, success].
acquire_exclusive(lm, tid, record_id) ==
    LET locks2 == get_lock(lm.locks, record_id)
        r      == Lock_acquire_exclusive(locks2[record_id], tid)
    IN  IF r.success
        THEN [lm |-> [locks |-> [locks2 EXCEPT ![record_id] = r.lock],
                      transaction_locks |->
                          (tid :> Append(WithoutRecord(Ledger(lm, tid), record_id),
                                         <<record_id, "EXCLUSIVE">>))
                          @@ lm.transaction_locks],
              success |-> TRUE]
        ELSE [lm |-> [lm EXCEPT !.locks = locks2], success |-> FALSE]

RECURSIVE ReleaseEach(_, _, _)
ReleaseEach(locks, ledger, tid) ==
    IF ledger = <<>> THEN locks
    ELSE LET record_id == Head(ledger)[1]
         IN  ReleaseEach(IF record_id \in DOMAIN locks
                         THEN [locks EXCEPT ![record_id] = Lock_release(@, tid)]
                         ELSE locks,
                         Tail(ledger), tid)

\* A faulty release that takes the transaction off the first record of its ledger
\* only: C5 depends on release_all below walking the whole ledger.
release_all_first_only(lm, tid) ==
    IF tid \notin DOMAIN lm.transaction_locks THEN lm
    ELSE [locks |-> ReleaseEach(lm.locks, SubSeq(lm.transaction_locks[tid], 1, 1), tid),
          transaction_locks |->
              [t \in DOMAIN lm.transaction_locks \ {tid} |-> lm.transaction_locks[t]]]

\* LockManager.release_all(transaction_id).
release_all(lm, tid) ==
    IF tid \notin DOMAIN lm.transaction_locks THEN lm
    ELSE [locks |-> ReleaseEach(lm.locks, lm.transaction_locks[tid], tid),
          transaction_locks |->
              [t \in DOMAIN lm.transaction_locks \ {tid} |-> lm.transaction_locks[t]]]

\* ------------------------------------------------------------ observations
\* What select(k, key, all columns) returns, as the list of the records' columns.
Selected(tbl, k) ==
    LET rs == Query_select(tbl, k, key, AllColumns)
    IN  [i \in 1 .. Len(rs) |-> [c \in 1 .. num_columns |-> Val(rs[i].columns[c])]]

\* The rids of the page directory whose primary-key column currently holds k.
LiveRids(tbl, k) ==
    {r \in DOMAIN tbl.page_directory : read_column(tbl, key, tbl.page_directory[r][key + 1]) = k}

\* ------------------------------------------------------------------- state
VARIABLES
    table,        \* the Table: base_page, tail_page, page_directory, version_chain,
                  \* rid_counter, index (the primary-key tree)
    ref,          \* history: primary key -> columns last written by insert/update,
                  \* for the keys inserted and not deleted since
    allocated,    \* history: the rids returned by insert_row, in call order
    stamp,        \* history: the next fresh column value the calls write
    plain,        \* history: so far only inserts of keys without a live record,
                  \* updates of non-key columns and deletes were called
    lock_manager, \* the LockManager singleton: locks, transaction_locks
    queries,      \* worker -> its list of transactions, each a list of operations
    worker,       \* worker -> position in TransactionWorker.__run and Transaction.run
    hist,         \* history per worker: what select showed when the current run()
                  \* started, and what each record held when the run locked it
    inserting,    \* thread -> its position inside a Table.insert_row call
    versions,     \* history: primary key -> the columns the record held after its
                  \* insert and after each later update, oldest first
    mutexes,      \* the held threading.Lock / RLock objects: name -> owner, count
    calls,        \* thread -> the mutex acquisitions and releases left in its call
    updating,     \* worker -> its position inside a Query.update call
    singleton,    \* the module global _lock_manager, the LockManagers constructed,
                  \* thread -> its position inside a get_lock_manager call
    one_page,     \* one Page: num_records, data, and the write calls made on it
    keyed,        \* one transaction run on a table with key column 0 and on one with
                  \* key column KeyColumn: the transaction and the two runs
    bplus_tree    \* one BPlusTree and the reference map value -> rid of its inserts

seqvars == <<ref, allocated, stamp, plain>>
txnvars == <<lock_manager, queries, worker, hist>>
othervars == <<versions, mutexes, calls, updating, singleton, one_page, keyed,
               bplus_tree>>
vars == <<table, seqvars, txnvars, inserting, othervars>>

Keys == 1 .. MaxKey

\* The columns of a row with primary key k and value v in every other column.
Row(k, v) == [i \in 1 .. num_columns |-> IF i = key + 1 THEN k ELSE v]

\* The arguments of an update that writes v to every non-key column.
SetValue(v) == [i \in 1 .. num_columns |-> IF i = key + 1 THEN None ELSE Some(v)]

\* The arguments of an update that rewrites only the primary-key column to k2.
SetKey(k2) == [i \in 1 .. num_columns |-> IF i = key + 1 THEN Some(k2) ELSE None]

\* columns merged into old: a given value replaces, None keeps.
Merge(old, columns) == [i \in 1 .. num_columns |->
                          IF columns[i] = None THEN old[i] ELSE Val(columns[i])]

InIndex(tbl, k) == Index_locate(tbl, key, k) # None

InitSeq ==
    /\ table = NewTable
    /\ ref = <<>>
    /\ allocated = <<>>
    /\ stamp = 1
    /\ plain = TRUE
    /\ lock_manager = NewLockManager
    /\ queries = <<>>
    /\ worker = <<>>
    /\ hist = <<>>
    /\ inserting = <<>>
    /\ versions = <<>>
    /\ mutexes = <<>>
    /\ calls = <<>>
    /\ updating = <<>>
    /\ singleton = <<>>
    /\ one_page = <<>>
    /\ keyed = <<>>
    /\ bplus_tree = <<>>

\* query.insert(k, v, ...), called directly.
Insert(k) ==
    /\ Len(allocated) < MaxInserts
    /\ LET r == Query_insert(table, Row(k, 10 * stamp))
       IN  /\ table' = r.table
           /\ ref' = IF r.result THEN (k :> Row(k, 10 * stamp)) @@ ref ELSE ref
           /\ allocated' = IF r.result THEN Append(allocated, Val(r.rid)) ELSE allocated
           /\ stamp' = stamp + 1
           /\ plain' = (plain /\ k \notin DOMAIN ref)
    /\ UNCHANGED <<txnvars, inserting, othervars>>

\* query.update(k, *columns), called directly.
Update(k, columns) ==
    /\ stamp - 1 - Len(allocated) < MaxUpdates
    /\ LET r == Query_update(table, k, columns)
       IN  /\ table' = r.table
           /\ ref' = IF r.result /\ k \in DOMAIN ref
                     THEN [ref EXCEPT ![k] = Merge(@, columns)] ELSE ref
           /\ stamp' = IF r.result THEN stamp + 1 ELSE stamp
           /\ plain' = (plain /\ columns[key + 1] = None)
    /\ UNCHANGED <<allocated, txnvars, inserting, othervars>>

\* query.delete(k), called directly.
Delete(k) ==
    /\ LET r == Query_delete(table, k)
       IN  /\ table' = r.table
           /\ ref' = IF r.result THEN [x \in DOMAIN ref \ {k} |-> ref[x]] ELSE ref
    /\ UNCHANGED <<allocated, stamp, plain, txnvars, inserting, othervars>>

\* Database.close() followed by Database().open(path) of the same path: every
\* table is written to the path and rebuilt from the files.
Reopen ==
    /\ table' = load_table_data(save_table_data(table))
    /\ plain' = FALSE
    /\ UNCHANGED <<ref, allocated, stamp, txnvars, inserting, othervars>>

NextSeq ==
    \/ \E k \in Keys : Insert(k)
    \/ \E k \in Keys : Update(k, SetValue(10 * stamp))
    \/ \E k \in Keys, k2 \in Keys : Update(k, SetKey(k2))
    \/ \E k \in Keys : Delete(k)
    \/ Reopen

SpecSeq == InitSeq /\ [][NextSeq]_vars

\* ---------------------------------------------------- lstore/transaction.py
Workers == 1 .. 3

\* The operations a transaction is built from with add_query.
select(k)    == [query_name |-> "select", k |-> k, v |-> 0]
insert(k, v) == [query_name |-> "insert", k |-> k, v |-> v]
update(k, v) == [query_name |-> "update", k |-> k, v |-> v]
delete(k)    == [query_name |-> "delete", k |-> k, v |-> 0]
\* query.select_version(k, 0, [1] * num_columns, relative_version).
select_version(k, relative_version) ==
    [query_name |-> "select_version", k |-> k, v |-> relative_version]
\* query.sum(lo, hi, 1) and query.sum_version(lo, hi, 1, -1): k is lo, v is hi.
sum(lo, hi)         == [query_name |-> "sum", k |-> lo, v |-> hi]
\* query.increment(k, 1): v is the column.
increment(k)        == [query_name |-> "increment", k |-> k, v |-> 1]
sum_version(lo, hi) == [query_name |-> "sum_version", k |-> lo, v |-> hi]

\* Transaction._get_record_id: the lock name "<table name>:<key>" of the one table.
get_record_id(k) == k

\* Transaction._get_record_snapshot(table, primary_key).
get_record_snapshot(tbl, primary_key) ==
    LET records == Query_select(tbl, primary_key, 0, AllColumns)
    IN  IF Len(records) > 0
        THEN Some([columns |-> [i \in 1 .. num_columns |-> Val(records[1].columns[i])],
                   rid     |-> records[1].rid])
        ELSE None

\* Transaction._prepare_operation: the operation_info of an operation.
prepare_operation(tbl, op) ==
    [op         |-> op,
     old_record |-> IF op.query_name \in {"update", "delete"}
                    THEN get_record_snapshot(tbl, op.k) ELSE None]

\* Transaction._get_record_ids_in_range: one lock name per integer of the range.
get_record_ids_in_range(start_key, end_key) ==
    [n \in 1 .. (IF end_key >= start_key THEN end_key - start_key + 1 ELSE 0) |->
        get_record_id(start_key + n - 1)]

\* A faulty range lock that locks the first key of the range only.
acquire_shared_each_first_only(lm, tid, record_ids) ==
    IF record_ids = <<>> THEN [lm |-> lm, success |-> TRUE]
    ELSE acquire_shared(lm, tid, Head(record_ids))

\* The loop of _acquire_locks_for_operation over the record ids of a sum range:
\* it stops at the first refusal and keeps the locks granted before.
RECURSIVE acquire_shared_each(_, _, _)
acquire_shared_each(lm, tid, record_ids) ==
    IF record_ids = <<>> THEN [lm |-> lm, success |-> TRUE]
    ELSE LET r == acquire_shared(lm, tid, Head(record_ids))
         IN  IF r.success THEN acquire_shared_each(r.lm, tid, Tail(record_ids)) ELSE r

\* A faulty range lock that leaves out the last key of the range: C19 depends on
\* the loop below covering the whole range.
acquire_locks_for_operation_short_range(lm, tid, op) ==
    IF op.query_name \in {"select", "select_version"}
    THEN acquire_shared(lm, tid, get_record_id(op.k))
    ELSE IF op.query_name \in {"insert", "update", "delete"}
    THEN acquire_exclusive(lm, tid, get_record_id(op.k))
    ELSE IF op.query_name = "increment"
    THEN [lm |-> lm, success |-> TRUE]
    ELSE acquire_shared_each(lm, tid, get_record_ids_in_range(op.k, op.v - 1))

\* Transaction._acquire_locks_for_operation: [lm, success]. The branches test
\* 'select', 'insert', 'update', 'delete', 'sum' in query_name, in that order.
acquire_locks_for_operation(lm, tid, op) ==
    IF op.query_name \in {"select", "select_version"}
    THEN acquire_shared(lm, tid, get_record_id(op.k))
    ELSE IF op.query_name \in {"insert", "update", "delete"}
    THEN acquire_exclusive(lm, tid, get_record_id(op.k))
    ELSE IF op.query_name = "increment"
    THEN [lm |-> lm, success |-> TRUE]
    ELSE acquire_shared_each(lm, tid, get_record_ids_in_range(op.k, op.v))

\* result = query(*args) in Transaction.run: [table, result, failed], where failed
\* is the test result == False. A select returns a list and select_version a list
\* or None, which never equal False; a sum returns False or an integer, and the
\* integer 0 equals False.
call_query(tbl, op) ==
    IF op.query_name = "select"
    THEN [table |-> tbl, result |-> Selected(tbl, op.k), failed |-> FALSE]
    ELSE IF op.query_name = "select_version"
    THEN [table |-> tbl, result |-> Query_select_version(tbl, op.k, key, AllColumns, op.v),
          failed |-> FALSE]
    ELSE IF op.query_name \in {"sum", "sum_version"}
    THEN LET total == IF op.query_name = "sum" THEN Query_sum(tbl, op.k, op.v, 1)
                      ELSE Query_sum_version(tbl, op.k, op.v, 1, -1)
         IN  [table |-> tbl, result |-> total, failed |-> (total = None \/ total = Some(0))]
    ELSE LET r == IF op.query_name = "insert" THEN Query_insert(tbl, Row(op.k, op.v))
                  ELSE IF op.query_name = "update"
                  THEN Query_update(tbl, op.k, SetValue(op.v))
                  ELSE IF op.query_name = "increment"
                  THEN Query_increment(tbl, op.k, op.v)
                  ELSE Query_delete(tbl, op.k)
         IN  [table |-> r.table, result |-> <<r.result>>, failed |-> ~r.result]

\* Transaction._rollback_operation: the table after the compensation.
rollback_operation(tbl, operation_info) ==
    LET op == operation_info.op
        old_record == operation_info.old_record
    IN  IF op.query_name = "insert" THEN Query_delete(tbl, op.k).table
        ELSE IF op.query_name = "update" /\ old_record # None
        THEN Query_update(tbl, op.k,
                 [i \in 1 .. num_columns |-> Some(Val(old_record).columns[i])]).table
        ELSE IF op.query_name = "delete" /\ old_record # None
        THEN Query_insert(tbl, Val(old_record).columns).table
        ELSE tbl

\* The loop of Transaction.abort over reversed(executed_operations): t is the
\* table after the compensation of the last operation, r the table after all.
RECURSIVE rollback_all(_, _)
rollback_all(tbl, executed_operations) ==
    IF executed_operations = <<>> THEN tbl
    ELSE CHOOSE r \in {rollback_all(t, SubSeq(executed_operations, 1,
                                              Len(executed_operations) - 1)) :
                          t \in {rollback_operation(tbl,
                                     executed_operations[Len(executed_operations)])}} : TRUE

\* Transaction.abort: [table, lm] after the rollback and release_all.
abort(tbl, lm, tid, executed_operations) ==
    [table |-> rollback_all(tbl, executed_operations), lm |-> release_all(lm, tid)]

\* --------------------------------------- workers running their transactions
\* The value worker w writes to the non-key columns of key k.
V(w, k) == 100 * w + k

\* The table the workers start from: the rows (k, 10 * k) of the keys 1 .. MaxKey,
\* inserted in key order. NewKey has no record in it.
RECURSIVE Populated(_)
Populated(n) ==
    IF n = 0 THEN NewTable ELSE Query_insert(Populated(n - 1), Row(n, 10 * n)).table

InitialTable == Populated(MaxKey)

NewKey == MaxKey + 1

TxnKeys == 1 .. NewKey

\* A transaction that updates key 1 and then fails (delete of a key without record).
UpdateThenFail(w) == <<update(1, V(w, 1)), delete(NewKey)>>

\* A transaction that updates key 1 twice and then fails.
UpdateTwiceThenFail(w) == <<update(1, V(w, 1)), update(1, V(w, 2)), delete(NewKey)>>

\* A transaction that reads an older version of key 1 and sums older versions.
ReadVersions == <<select_version(1, -1), sum_version(1, 2)>>

\* The transaction lists a worker may be given: update, delete and insert
\* sequences that end in an operation that fails, lock orders that collide, a read
\* followed by a write of the same record, a sum whose total is 0, a sum over a
\* range another transaction writes in, reads of older versions. No transaction
\* inserts a key that has a record.
Menu(w) ==
    IF w = 1
    THEN { <<UpdateThenFail(1)>>,
           <<UpdateTwiceThenFail(1)>>,
           <<<<update(1, V(1, 1)), update(2, V(1, 2))>>>>,
           <<<<delete(MaxKey), delete(NewKey)>>>>,
           <<<<insert(NewKey, V(1, NewKey)), update(1, V(1, 1))>>>>,
           <<<<update(1, 0), sum(1, 1)>>>> }
    ELSE IF w = 2
    THEN { <<>>,
           <<<<update(1, V(2, 1))>>>>,
           <<<<update(2, V(2, 2)), update(1, V(2, 1))>>>>,
           <<<<select(1), update(1, V(2, 1))>>>>,
           <<UpdateThenFail(2)>>,
           <<<<update(1, V(2, 1)), sum(MaxKey - 1, MaxKey)>>>>,
           <<<<update(1, V(2, 1))>>, <<select(2)>>>>,
           <<UpdateThenFail(2), <<select(2)>>>> }
    ELSE { <<>>, <<<<select(1)>>>>, <<ReadVersions>> }

\* A transaction that increments column 1 of key 1, and one that then fails.
Increment == <<increment(1)>>
IncrementThenFail == <<increment(1), delete(NewKey)>>

\* Increments of the same column of the same key by one, two and three workers,
\* and an increment in a transaction that aborts, alone and beside another.
IncrementWorkloads ==
    { <<<<Increment>>, <<>>, <<>>>>,
      <<<<Increment>>, <<Increment>>, <<>>>>,
      <<<<Increment>>, <<Increment>>, <<Increment>>>>,
      <<<<IncrementThenFail>>, <<>>, <<>>>>,
      <<<<IncrementThenFail>>, <<Increment>>, <<>>>> }

\* Two writers in every combination, the transaction whose sum is 0 running
\* alone, the one that updates twice alone or with a writer of the same key; the reader of worker 3 joins the writers that update key 1, the reader
\* of versions the first of them.
Workloads ==
    {q \in {<<a, b, c>> : a \in Menu(1), b \in Menu(2), c \in Menu(3)} :
        \/ /\ q[3] = <<>>
           /\ q[1] = <<<<update(1, 0), sum(1, 1)>>>> => q[2] = <<>>
           /\ q[1] = <<UpdateTwiceThenFail(1)>> => q[2] \in {<<>>, <<UpdateThenFail(2)>>}
        \/ /\ q[3] = <<<<select(1)>>>>
           /\ q[1] = <<UpdateThenFail(1)>>
           /\ q[2] \in {<<UpdateThenFail(2)>>, <<<<select(1), update(1, V(2, 1))>>>>}
        \/ /\ q[3] = <<ReadVersions>>
           /\ q[1] = <<UpdateThenFail(1)>>
           /\ q[2] = <<>>}
        \cup IncrementWorkloads

\* __run at the top of its loops, Transaction with nothing executed.
NewWorker ==
    [cur |-> 1, pc |-> "prepare", i |-> 0, operation_info |-> None,
     executed_operations |-> <<>>, retry_count |-> 0, stats |-> <<>>]

NewHist == [before |-> <<>>, locked |-> <<>>]

Init ==
    /\ table = InitialTable
    /\ lock_manager = NewLockManager
    /\ queries \in Workloads
    /\ worker = [w \in Workers |-> NewWorker]
    /\ hist = [w \in Workers |-> NewHist]
    /\ ref = <<>>
    /\ allocated = <<>>
    /\ stamp = 1
    /\ plain = TRUE
    /\ inserting = <<>>
    /\ versions = <<>>
    /\ mutexes = <<>>
    /\ calls = <<>>
    /\ updating = <<>>
    /\ singleton = <<>>
    /\ one_page = <<>>
    /\ keyed = <<>>
    /\ bplus_tree = <<>>

\* get_next_transaction_id: transactions are numbered in construction order,
\* worker by worker.
RECURSIVE TxnsBefore(_)
TxnsBefore(w) == IF w = 1 THEN 0 ELSE TxnsBefore(w - 1) + Len(queries[w - 1])

transaction_id(w) == TxnsBefore(w) + worker[w].cur - 1

\* The worker still has a transaction to run.
Active(w) == worker[w].cur <= Len(queries[w])

\* self.queries of the transaction the worker is running.
Txn(w) == queries[w][worker[w].cur]

\* The operation at the position of the worker.
Op(w) == Txn(w)[worker[w].i + 1]

\* No other worker has any transaction.
Alone(w) == \A u \in Workers \ {w} : queries[u] = <<>>

\* What select shows for every key.
Visible(tbl) == [k \in TxnKeys |-> Selected(tbl, k)]

\* A worker whose retry loop has no ceiling.
AfterAbort_without_ceiling(wk) ==
    [NewWorker EXCEPT !.cur = wk.cur, !.stats = wk.stats, !.retry_count = wk.retry_count]

\* A worker that leaves the retry loop without an entry in stats.
AfterAbort_without_stats(wk) ==
    IF wk.retry_count + 1 >= max_retries
    THEN [NewWorker EXCEPT !.cur = wk.cur + 1, !.stats = wk.stats]
    ELSE [NewWorker EXCEPT !.cur = wk.cur, !.stats = wk.stats,
                           !.retry_count = wk.retry_count + 1]

\* The worker after run() returned False: retry_count += 1, and the transaction
\* is given up (stats gets False) once retry_count reaches max_retries.
AfterAbort(wk) ==
    IF wk.retry_count + 1 >= max_retries
    THEN [NewWorker EXCEPT !.cur = wk.cur + 1, !.stats = Append(wk.stats, FALSE)]
    ELSE [NewWorker EXCEPT !.cur = wk.cur, !.stats = wk.stats,
                           !.retry_count = wk.retry_count + 1]

\* The worker after run() returned True.
AfterCommit(wk) ==
    [NewWorker EXCEPT !.cur = wk.cur + 1, !.stats = Append(wk.stats, TRUE)]

\* Transaction.run, one operation: _prepare_operation (the snapshot for rollback).
\* At the first operation this is also the call of run().
Prepare(w) ==
    /\ Active(w)
    /\ worker[w].pc = "prepare"
    /\ worker' = [worker EXCEPT ![w].operation_info = Some(prepare_operation(table, Op(w))),
                                ![w].pc = "acquire"]
    /\ hist' = IF worker[w].i = 0
               THEN [hist EXCEPT ![w] = [before |-> IF Alone(w) THEN Visible(table) ELSE <<>>,
                                         locked |-> <<>>]]
               ELSE hist
    /\ UNCHANGED <<table, lock_manager, queries, seqvars, inserting, othervars>>

\* Transaction.run, one operation: _acquire_locks_for_operation grants the lock.
AcquireGranted(w) ==
    /\ Active(w)
    /\ worker[w].pc = "acquire"
    /\ LET r == acquire_locks_for_operation(lock_manager, transaction_id(w), Op(w))
           k == Op(w).k
       IN  /\ r.success
           /\ lock_manager' = r.lm
           /\ hist' = IF /\ Op(w).query_name \in {"insert", "update", "delete"}
                         /\ k \notin DOMAIN hist[w].locked
                      THEN [hist EXCEPT ![w].locked = (k :> Selected(table, k)) @@ @]
                      ELSE hist
    /\ worker' = [worker EXCEPT ![w].pc = IF Op(w).query_name = "increment"
                                          THEN "increment" ELSE "execute"]
    /\ UNCHANGED <<table, queries, seqvars, inserting, othervars>>

\* Transaction.run, one operation: the lock is refused, return self.abort().
AcquireRefused(w) ==
    /\ Active(w)
    /\ worker[w].pc = "acquire"
    /\ \E r \in {acquire_locks_for_operation(lock_manager, transaction_id(w), Op(w))} :
           /\ ~r.success
           /\ \E a \in {abort(table, r.lm, transaction_id(w),
                                worker[w].executed_operations)} :
                  /\ table' = a.table
                  /\ lock_manager' = a.lm
    /\ worker' = [worker EXCEPT ![w] = AfterAbort(@)]
    /\ UNCHANGED <<hist, queries, seqvars, inserting, othervars>>

\* Transaction.run, one operation: the query is called and does not return False.
ExecuteOk(w) ==
    /\ Active(w)
    /\ worker[w].pc = "execute"
    /\ \E r \in {call_query(table, Op(w))} :
           /\ ~r.failed
           /\ table' = r.table
           /\ worker' = [worker EXCEPT
                  ![w].executed_operations =
                      Append(@, [op         |-> Op(w),
                                 old_record |-> Val(worker[w].operation_info).old_record,
                                 result     |-> r.result]),
                  ![w].operation_info = None,
                  ![w].i = @ + 1,
                  ![w].pc = IF worker[w].i + 1 = Len(Txn(w)) THEN "commit" ELSE "prepare"]
    /\ UNCHANGED <<lock_manager, hist, queries, seqvars, inserting, othervars>>

\* Transaction.run, one operation: the query returns False, return self.abort().
ExecuteFailed(w) ==
    /\ Active(w)
    /\ worker[w].pc = "execute"
    /\ \E r \in {call_query(table, Op(w))} :
           /\ r.failed
           /\ \E a \in {abort(r.table, lock_manager, transaction_id(w),
                                worker[w].executed_operations)} :
                  /\ table' = a.table
                  /\ lock_manager' = a.lm
    /\ worker' = [worker EXCEPT ![w] = AfterAbort(@)]
    /\ UNCHANGED <<hist, queries, seqvars, inserting, othervars>>

\* Transaction.run after the last operation: return self.commit().
Commit(w) ==
    /\ Active(w)
    /\ worker[w].pc = "commit"
    /\ lock_manager' = release_all(lock_manager, transaction_id(w))
    /\ worker' = [worker EXCEPT ![w] = AfterCommit(@)]
    /\ UNCHANGED <<table, hist, queries, seqvars, inserting, othervars>>

\* Transaction.run, one operation, the query is Query.increment: its select. The
\* record read is kept in r until the update; without a record increment returns
\* False and run returns self.abort().
IncrementSelect(w) ==
    /\ Active(w)
    /\ worker[w].pc = "increment"
    /\ \E r \in {Query_select(table, Op(w).k, key, AllColumns)} :
           IF r = <<>>
           THEN \E a \in {abort(table, lock_manager, transaction_id(w),
                                 worker[w].executed_operations)} :
                    /\ table' = a.table
                    /\ lock_manager' = a.lm
                    /\ worker' = [worker EXCEPT ![w] = AfterAbort(@)]
           ELSE /\ worker' = [worker EXCEPT
                       ![w].operation_info =
                           Some([op |-> Op(w), old_record |-> None,
                                 r |-> Val(r[1].columns[Op(w).v + 1])]),
                       ![w].pc = "increment_update"]
                /\ UNCHANGED <<table, lock_manager>>
    /\ UNCHANGED <<hist, queries, seqvars, inserting, othervars>>

\* Query.increment, its update of the column to r.columns[column] + 1, and the
\* rest of the operation in Transaction.run.
IncrementUpdate(w) ==
    /\ Active(w)
    /\ worker[w].pc = "increment_update"
    /\ \E u \in {Query_update(table, Op(w).k,
                                IncrementColumns(Op(w).v, Val(worker[w].operation_info).r + 1))} :
           IF u.result
           THEN /\ table' = u.table
                /\ worker' = [worker EXCEPT
                       ![w].executed_operations =
                           Append(@, [op |-> Op(w), old_record |-> None, result |-> <<TRUE>>]),
                       ![w].operation_info = None,
                       ![w].i = @ + 1,
                       ![w].pc = IF worker[w].i + 1 = Len(Txn(w)) THEN "commit" ELSE "prepare"]
                /\ UNCHANGED lock_manager
           ELSE \E a \in {abort(u.table, lock_manager, transaction_id(w),
                                 worker[w].executed_operations)} :
                    /\ table' = a.table
                    /\ lock_manager' = a.lm
                    /\ worker' = [worker EXCEPT ![w] = AfterAbort(@)]
    /\ UNCHANGED <<hist, queries, seqvars, inserting, othervars>>

Next ==
    \/ \E w \in Workers : Prepare(w)
    \/ \E w \in Workers : AcquireGranted(w)
    \/ \E w \in Workers : AcquireRefused(w)
    \/ \E w \in Workers : ExecuteOk(w)
    \/ \E w \in Workers : ExecuteFailed(w)
    \/ \E w \in Workers : IncrementSelect(w)
    \/ \E w \in Workers : IncrementUpdate(w)
    \/ \E w \in Workers : Commit(w)

Spec == Init /\ [][Next]_vars

\* The worker threads are non-daemon threads that never block (a refused lock
\* aborts, the sleep between retries is 1 ms): as long as some worker has a step
\* to take, a step is taken.
FairSpec == Spec /\ WF_vars(Next)

\* ------------------------------- threads inside Table.insert_row together
Threads == 1 .. 2

\* The row thread t inserts: its own key, its own value.
RowOf(t) == Row(t, 10 * t)

\* A thread about to call insert_row(columns).
NewCall(t) ==
    [pc |-> "rid", columns |-> RowOf(t), rid |-> 0, i |-> 0,
     page_positions |-> [c \in 1 .. num_columns |-> None]]

InitIns ==
    /\ table = NewTable
    /\ inserting = [t \in Threads |-> NewCall(t)]
    /\ versions = <<>>
    /\ mutexes = <<>>
    /\ calls = <<>>
    /\ updating = <<>>
    /\ singleton = <<>>
    /\ one_page = <<>>
    /\ keyed = <<>>
    /\ bplus_tree = <<>>
    /\ lock_manager = NewLockManager
    /\ queries = <<>>
    /\ worker = <<>>
    /\ hist = <<>>
    /\ ref = <<>>
    /\ allocated = <<>>
    /\ stamp = 1
    /\ plain = TRUE

\* insert_row: rid = self.rid_counter + 1; self.rid_counter += 1 (under rid_lock).
AllocateRid(t) ==
    /\ inserting[t].pc = "rid"
    /\ table' = [table EXCEPT !.rid_counter = @ + 1]
    /\ inserting' = [inserting EXCEPT ![t].rid = table.rid_counter + 1, ![t].pc = "write"]
    /\ UNCHANGED <<seqvars, txnvars, othervars>>

\* insert_row, column i: the last base page of the column is taken (a new one
\* appended when it is full) and the value written to it.
WriteColumn(t) ==
    /\ inserting[t].pc = "write"
    /\ LET i == inserting[t].i
       IN  table' = [table EXCEPT !.base_page[i] = AppendSlot(@, inserting[t].columns[i + 1])]
    /\ inserting' = [inserting EXCEPT ![t].pc = "position"]
    /\ UNCHANGED <<seqvars, txnvars, othervars>>

\* insert_row, column i: page_index and record_offset are read back from the
\* column's last page, and the loop moves to the next column.
ReadPosition(t) ==
    /\ inserting[t].pc = "position"
    /\ LET i == inserting[t].i
       IN  inserting' = [inserting EXCEPT
               ![t].page_positions[i + 1] = LastSlot(table.base_page[i]),
               ![t].i = i + 1,
               ![t].pc = IF i + 1 = num_columns THEN "directory" ELSE "write"]
    /\ UNCHANGED <<table, seqvars, txnvars, othervars>>

\* insert_row: self.page_directory[rid] = page_positions (under pd_lock).
SetDirectory(t) ==
    /\ inserting[t].pc = "directory"
    /\ table' = [table EXCEPT !.page_directory =
                    (inserting[t].rid :> inserting[t].page_positions) @@ @]
    /\ inserting' = [inserting EXCEPT ![t].pc = "index"]
    /\ UNCHANGED <<seqvars, txnvars, othervars>>

\* insert_row: self.index.insert(self.key, primary_key_value, rid); return rid.
IndexInsert(t) ==
    /\ inserting[t].pc = "index"
    /\ table' = [table EXCEPT !.index =
                    BPlusTree_insert(@, inserting[t].columns[key + 1], inserting[t].rid)]
    /\ inserting' = [inserting EXCEPT ![t].pc = "done"]
    /\ UNCHANGED <<seqvars, txnvars, othervars>>

NextIns ==
    \/ \E t \in Threads : AllocateRid(t)
    \/ \E t \in Threads : WriteColumn(t)
    \/ \E t \in Threads : ReadPosition(t)
    \/ \E t \in Threads : SetDirectory(t)
    \/ \E t \in Threads : IndexInsert(t)

SpecIns == InitIns /\ [][NextIns]_vars

\* ------------------------------------- updates of column subsets, versions
\* The records whose columns are updated.
VersionedKeys == 1 .. 2

\* The argument lists of an update of record k: every column either kept (None)
\* or written, the primary-key column with k itself, another column with v; at
\* least one column is written.
ColumnSubsets(k, v) ==
    {columns \in [1 .. num_columns -> {None, Some(k), Some(v)}] :
        /\ \E i \in 1 .. num_columns : columns[i] # None
        /\ \A i \in 1 .. num_columns :
              columns[i] # None => columns[i] = (IF i = key + 1 THEN Some(k) ELSE Some(v))}

InitVer ==
    /\ table = InitialTable
    /\ versions = [k \in VersionedKeys |-> <<Row(k, 10 * k)>>]
    /\ mutexes = <<>>
    /\ calls = <<>>
    /\ updating = <<>>
    /\ singleton = <<>>
    /\ one_page = <<>>
    /\ keyed = <<>>
    /\ bplus_tree = <<>>
    /\ stamp = 1
    /\ ref = <<>>
    /\ allocated = <<>>
    /\ plain = TRUE
    /\ lock_manager = NewLockManager
    /\ queries = <<>>
    /\ worker = <<>>
    /\ hist = <<>>
    /\ inserting = <<>>

\* query.update(k, *columns) of a subset of the columns, called directly.
UpdateSubset(k, columns) ==
    /\ stamp <= MaxVersions
    /\ LET r == Query_update(table, k, columns)
       IN  /\ r.result
           /\ table' = r.table
           /\ versions' = [versions EXCEPT
                             ![k] = Append(@, Merge(@[Len(@)], columns))]
           /\ stamp' = stamp + 1
    /\ UNCHANGED <<ref, allocated, plain, txnvars, inserting, mutexes, calls, updating, singleton, one_page, keyed,
                   bplus_tree>>

NextVer == \E k \in VersionedKeys : \E columns \in ColumnSubsets(k, 100 * stamp + k) :
               UpdateSubset(k, columns)

SpecVer == InitVer /\ [][NextVer]_vars

\* ------------------------------------------- calls of the lock manager alone
\* The transaction ids and record names of the calls.
LockTids == 0 .. 2

LockRecords == 1 .. 2

InitLock ==
    /\ lock_manager = NewLockManager
    /\ table = NewTable
    /\ versions = <<>>
    /\ mutexes = <<>>
    /\ calls = <<>>
    /\ updating = <<>>
    /\ singleton = <<>>
    /\ one_page = <<>>
    /\ keyed = <<>>
    /\ bplus_tree = <<>>
    /\ stamp = 1
    /\ ref = <<>>
    /\ allocated = <<>>
    /\ plain = TRUE
    /\ queries = <<>>
    /\ worker = <<>>
    /\ hist = <<>>
    /\ inserting = <<>>

\* lock_manager.acquire_shared(tid, record_id), granted or refused.
LockShared(tid, record_id) ==
    /\ Len(Ledger(lock_manager, tid)) < MaxLedger
    /\ lock_manager' = acquire_shared(lock_manager, tid, record_id).lm
    /\ UNCHANGED <<table, seqvars, queries, worker, hist, inserting, othervars>>

\* lock_manager.acquire_exclusive(tid, record_id), granted or refused.
LockExclusive(tid, record_id) ==
    /\ Len(Ledger(lock_manager, tid)) < MaxLedger
    /\ lock_manager' = acquire_exclusive(lock_manager, tid, record_id).lm
    /\ UNCHANGED <<table, seqvars, queries, worker, hist, inserting, othervars>>

\* lock_manager.release_all(tid).
ReleaseAll(tid) ==
    /\ lock_manager' = release_all(lock_manager, tid)
    /\ UNCHANGED <<table, seqvars, queries, worker, hist, inserting, othervars>>

NextLock ==
    \/ \E tid \in LockTids, record_id \in LockRecords : LockShared(tid, record_id)
    \/ \E tid \in LockTids, record_id \in LockRecords : LockExclusive(tid, record_id)
    \/ \E tid \in LockTids : ReleaseAll(tid)

SpecLock == InitLock /\ [][NextLock]_vars

\* ------------------------------------------- the mutexes inside the calls
\* Worker threads are inside calls of the lock manager and of the queries; a call
\* is the sequence of acquisitions and releases of threading.Lock / RLock objects
\* its `with` blocks make, in program order. A mutex is named <<kind, number>>.
MutexThreads == 1 .. 2

\* `with m: body`.
With(m, body) == <<<<"acquire", m>>>> \o body \o <<<<"release", m>>>>

RECURSIVE Flatten(_)
\* The blocks of a loop, one after the other.
Flatten(blocks) ==
    IF blocks = <<>> THEN <<>> ELSE Head(blocks) \o Flatten(Tail(blocks))

\* LockManager._get_lock, then Lock.acquire_shared / Lock.acquire_exclusive under
\* the record's own mutex, then the ledger entry under manager_lock when granted;
\* the mutant keeps the record's mutex while it writes the ledger.
LockManager_acquire_holding_record_mutex(record_id, success) ==
    With(<<"manager_lock", 0>>, <<>>)
        \o With(<<"Lock", record_id>>,
                IF success THEN With(<<"manager_lock", 0>>, <<>>) ELSE <<>>)

LockManager_acquire(record_id, success) ==
    With(<<"manager_lock", 0>>, <<>>)
        \o With(<<"Lock", record_id>>, <<>>)
        \o (IF success THEN With(<<"manager_lock", 0>>, <<>>) ELSE <<>>)

\* LockManager.release_all: Lock.release of every record of the ledger, each under
\* the record's mutex, all inside manager_lock.
LockManager_release_all(record_ids) ==
    With(<<"manager_lock", 0>>,
         Flatten([i \in 1 .. Len(record_ids) |-> With(<<"Lock", record_ids[i]>>, <<>>)]))

\* The calls of the queries: ThreadSafeIndex methods under the index RLock, the
\* page directory under pd_lock, the version chain under vc_lock, Page.read and
\* Page.has_capacity under the page's RLock, Page.write under the page's RLock
\* with has_capacity inside it, Table.insert_row under rid_lock first.
Query_calls ==
    LET index == With(<<"index", 0>>, <<>>)
        pd    == With(<<"pd_lock", 0>>, <<>>)
        vc    == With(<<"vc_lock", 0>>, <<>>)
        mutex_has_capacity(page) == With(page, <<>>)
        mutex_read(page) == With(page, <<>>)
        mutex_write(page) == With(page, mutex_has_capacity(page))
        EachColumn(block(_)) == Flatten([i \in 1 .. num_columns |-> block(i - 1)])
        base(c) == <<"base_page", c>>
        tail(c) == <<"tail_page", c>>
        read_base(c) == mutex_read(base(c))
        read_tail(c) == vc \o mutex_read(tail(c))
        insert_column(c) == mutex_has_capacity(base(c)) \o mutex_write(base(c))
        update_column(c) == mutex_read(base(c)) \o mutex_has_capacity(tail(c)) \o mutex_write(tail(c))
                                \o With(base(c), <<>>)
    IN  {index,                                                \* key not found
         index \o pd,                                          \* delete
         With(<<"rid_lock", 0>>, <<>>) \o EachColumn(insert_column) \o pd \o index,
         index \o pd \o EachColumn(read_base),                 \* select
         index \o pd \o vc \o EachColumn(read_tail),           \* select_version
         index \o pd \o vc \o EachColumn(LAMBDA c : vc \o read_base(c)),
         index \o pd \o index \o EachColumn(update_column) \o vc,   \* update
         index \o pd \o update_column(1) \o vc,
         index \o pd \o read_base(1),                          \* sum
         index \o pd \o vc \o mutex_read(tail(1))}                   \* sum_version

\* The calls a thread may be in.
ThreadCalls ==
    {LockManager_acquire(r, s) : r \in LockRecords, s \in BOOLEAN}
        \cup {LockManager_release_all(l) :
                l \in {<<>>} \cup {<<r>> : r \in LockRecords}
                        \cup {<<r, s>> : r \in LockRecords, s \in LockRecords}}
        \cup Query_calls

InitMutex ==
    /\ mutexes = {}
    /\ calls = [t \in MutexThreads |-> <<>>]
    /\ updating = <<>>
    /\ singleton = <<>>
    /\ one_page = <<>>
    /\ keyed = <<>>
    /\ bplus_tree = <<>>
    /\ lock_manager = NewLockManager
    /\ table = NewTable
    /\ versions = <<>>
    /\ stamp = 1
    /\ ref = <<>>
    /\ allocated = <<>>
    /\ plain = TRUE
    /\ queries = <<>>
    /\ worker = <<>>
    /\ hist = <<>>
    /\ inserting = <<>>

\* The mutex m as it is held, or None.
HeldMutex(m) == IF \E h \in mutexes : h.m = m
                THEN Some(CHOOSE h \in mutexes : h.m = m) ELSE None

\* Table, index and page mutexes are threading.RLock; manager_lock and the mutex
\* of a record's Lock are threading.Lock.
Reentrant(m) == m[1] \notin {"manager_lock", "Lock"}

\* Thread t is not waiting: it is between calls, or its next step is a release,
\* or the acquisition of a mutex that is free or an RLock t holds itself.
CanStep(t) ==
    \/ calls[t] = <<>>
    \/ Head(calls[t])[1] = "release"
    \/ LET h == HeldMutex(Head(calls[t])[2])
       IN  IF h = None THEN TRUE ELSE Reentrant(Val(h).m) /\ Val(h).owner = t

\* Thread t enters a call.
Call(t, call) ==
    /\ calls[t] = <<>>
    /\ calls' = [calls EXCEPT ![t] = call]
    /\ UNCHANGED <<table, seqvars, txnvars, inserting, versions, mutexes, updating, singleton, one_page, keyed,
                   bplus_tree>>

\* __enter__ of a `with` block: the thread goes on when the mutex is free, or is
\* an RLock it owns; otherwise it waits.
AcquireMutex(t) ==
    /\ calls[t] # <<>>
    /\ Head(calls[t])[1] = "acquire"
    /\ CanStep(t)
    /\ LET m == Head(calls[t])[2]
           h == HeldMutex(m)
       IN  mutexes' = IF h = None
                      THEN mutexes \cup {[m |-> m, owner |-> t, count |-> 1]}
                      ELSE (mutexes \ {Val(h)})
                               \cup {[Val(h) EXCEPT !.count = @ + 1]}
    /\ calls' = [calls EXCEPT ![t] = Tail(@)]
    /\ UNCHANGED <<table, seqvars, txnvars, inserting, versions, updating, singleton, one_page, keyed,
                   bplus_tree>>

\* __exit__ of a `with` block.
ReleaseMutex(t) ==
    /\ calls[t] # <<>>
    /\ Head(calls[t])[1] = "release"
    /\ LET h == Val(HeldMutex(Head(calls[t])[2]))
       IN  mutexes' = IF h.count = 1
                      THEN mutexes \ {h}
                      ELSE (mutexes \ {h}) \cup {[h EXCEPT !.count = @ - 1]}
    /\ calls' = [calls EXCEPT ![t] = Tail(@)]
    /\ UNCHANGED <<table, seqvars, txnvars, inserting, versions, updating, singleton, one_page, keyed,
                   bplus_tree>>

NextMutex ==
    \/ \E t \in MutexThreads : \E call \in ThreadCalls : Call(t, call)
    \/ \E t \in MutexThreads : AcquireMutex(t)
    \/ \E t \in MutexThreads : ReleaseMutex(t)

SpecMutex == InitMutex /\ [][NextMutex]_vars

\* ------------------------------------ workers inside Query.update together
\* Worker w is inside query.update(w, None, V(w, w), ...): the update of its own
\* key, whose exclusive lock its transaction holds.
NewUpdateCall(w) ==
    [pc |-> "locate", primary_key |-> w, columns |-> SetValue(V(w, w)),
     rid |-> 0, old_locations |-> <<>>, col_idx |-> 0,
     tail_locations |-> [i \in 1 .. num_columns |-> None]]

InitUpd ==
    /\ table = InitialTable
    /\ updating = [w \in Workers |-> NewUpdateCall(w)]
    /\ singleton = <<>>
    /\ one_page = <<>>
    /\ keyed = <<>>
    /\ bplus_tree = <<>>
    /\ versions = <<>>
    /\ mutexes = <<>>
    /\ calls = <<>>
    /\ lock_manager = NewLockManager
    /\ queries = <<>>
    /\ worker = <<>>
    /\ hist = <<>>
    /\ ref = <<>>
    /\ allocated = <<>>
    /\ stamp = 1
    /\ plain = TRUE
    /\ inserting = <<>>

\* The next column of the loop that is given a value, or num_columns.
NextColumn(columns, c) ==
    IF \E i \in c .. num_columns - 1 : columns[i + 1] # None
    THEN CHOOSE i \in c .. num_columns - 1 :
             /\ columns[i + 1] # None
             /\ \A j \in c .. i - 1 : columns[j + 1] = None
    ELSE num_columns

\* update: rid = index.locate(key, primary_key); old_locations is copied from the
\* page directory under pd_lock.
LocateRecord(w) ==
    /\ updating[w].pc = "locate"
    /\ LET rid == Val(Index_locate(table, key, updating[w].primary_key))
       IN  updating' = [updating EXCEPT
               ![w].rid = rid,
               ![w].old_locations = table.page_directory[rid],
               ![w].col_idx = NextColumn(updating[w].columns, 0),
               ![w].pc = "tail"]
    /\ UNCHANGED <<table, seqvars, txnvars, inserting, versions, mutexes, calls, singleton, one_page, keyed,
                   bplus_tree>>

\* update, column col_idx: old_value is read from the base slot, the last tail page
\* of the column is taken (a new one appended when it is full) and old_value is
\* written to it.
WriteTail(w) ==
    /\ updating[w].pc = "tail"
    /\ LET c == updating[w].col_idx
           old_value == read_column(table, c, updating[w].old_locations[c + 1])
       IN  table' = [table EXCEPT !.tail_page[c] = AppendSlot(@, old_value)]
    /\ updating' = [updating EXCEPT ![w].pc = "position"]
    /\ UNCHANGED <<seqvars, txnvars, inserting, versions, mutexes, calls, singleton, one_page, keyed,
                   bplus_tree>>

\* update, column col_idx: tail_page_idx and tail_slot_idx are read back from the
\* column's tail pages, the new value is written over the base slot under the
\* page's lock, and the loop moves to the next column given a value.
WriteBase(w) ==
    /\ updating[w].pc = "position"
    /\ LET c   == updating[w].col_idx
           loc == updating[w].old_locations[c + 1]
           c2  == NextColumn(updating[w].columns, c + 1)
       IN  /\ table' = [table EXCEPT !.base_page[c][loc[1] + 1][loc[2] + 1] =
                                         Val(updating[w].columns[c + 1])]
           /\ updating' = [updating EXCEPT
                  ![w].tail_locations[c + 1] = LastSlot(table.tail_page[c]),
                  ![w].col_idx = c2,
                  ![w].pc = IF c2 = num_columns THEN "chain" ELSE "tail"]
    /\ UNCHANGED <<seqvars, txnvars, inserting, versions, mutexes, calls, singleton, one_page, keyed,
                   bplus_tree>>

\* update: version_chain[rid].insert(0, tail_locations) under vc_lock; return True.
InsertVersion(w) ==
    /\ updating[w].pc = "chain"
    /\ LET rid == updating[w].rid
           chain == IF rid \in DOMAIN table.version_chain
                    THEN table.version_chain[rid] ELSE <<>>
       IN  table' = [table EXCEPT !.version_chain =
                        (rid :> (<<updating[w].tail_locations>> \o chain)) @@ @]
    /\ updating' = [updating EXCEPT ![w].pc = "done"]
    /\ UNCHANGED <<seqvars, txnvars, inserting, versions, mutexes, calls, singleton, one_page, keyed,
                   bplus_tree>>

NextUpd ==
    \/ \E w \in Workers : LocateRecord(w)
    \/ \E w \in Workers : WriteTail(w)
    \/ \E w \in Workers : WriteBase(w)
    \/ \E w \in Workers : InsertVersion(w)

SpecUpd == InitUpd /\ [][NextUpd]_vars

\* ------------------------------------ threads inside get_lock_manager together
\* Each thread calls get_lock_manager() once, as Transaction.__init__ does.
Callers == 1 .. 3

NewGetCall == [pc |-> "test", instance |-> None, returned |-> None]

\* The module as imported: _lock_manager = None, no LockManager constructed.
InitSingleton ==
    /\ singleton = [lock_manager_global |-> None, constructed |-> 0,
                    call |-> [t \in Callers |-> NewGetCall]]
    /\ table = InitialTable
    /\ lock_manager = NewLockManager
    /\ queries = <<>>
    /\ worker = <<>>
    /\ hist = <<>>
    /\ ref = <<>>
    /\ allocated = <<>>
    /\ stamp = 1
    /\ plain = TRUE
    /\ inserting = <<>>
    /\ versions = <<>>
    /\ mutexes = <<>>
    /\ calls = <<>>
    /\ updating = <<>>
    /\ one_page = <<>>
    /\ keyed = <<>>
    /\ bplus_tree = <<>>

\* if _lock_manager is None
TestNone(t) ==
    /\ singleton.call[t].pc = "test"
    /\ singleton' = [singleton EXCEPT !.call[t].pc =
                         IF singleton.lock_manager_global = None THEN "construct"
                         ELSE "return"]
    /\ UNCHANGED <<table, seqvars, txnvars, inserting, versions, mutexes, calls, updating,
                   one_page, keyed,
                   bplus_tree>>

\* LockManager(): a new instance, named by its number in construction order.
Construct(t) ==
    /\ singleton.call[t].pc = "construct"
    /\ singleton' = [singleton EXCEPT !.constructed = @ + 1,
                                      !.call[t].instance = Some(singleton.constructed + 1),
                                      !.call[t].pc = "assign"]
    /\ UNCHANGED <<table, seqvars, txnvars, inserting, versions, mutexes, calls, updating,
                   one_page, keyed,
                   bplus_tree>>

\* _lock_manager = (the new instance)
Assign(t) ==
    /\ singleton.call[t].pc = "assign"
    /\ singleton' = [singleton EXCEPT !.lock_manager_global = singleton.call[t].instance,
                                      !.call[t].pc = "return"]
    /\ UNCHANGED <<table, seqvars, txnvars, inserting, versions, mutexes, calls, updating,
                   one_page, keyed,
                   bplus_tree>>

\* return _lock_manager
Return(t) ==
    /\ singleton.call[t].pc = "return"
    /\ singleton' = [singleton EXCEPT !.call[t].returned = singleton.lock_manager_global,
                                      !.call[t].pc = "done"]
    /\ UNCHANGED <<table, seqvars, txnvars, inserting, versions, mutexes, calls, updating,
                   one_page, keyed,
                   bplus_tree>>

NextSingleton ==
    \/ \E t \in Callers : TestNone(t)
    \/ \E t \in Callers : Construct(t)
    \/ \E t \in Callers : Assign(t)
    \/ \E t \in Callers : Return(t)

SpecSingleton == InitSingleton /\ [][NextSingleton]_vars

\* ------------------------------------------------- write calls on one Page
\* bytearray(4096), 8 bytes per slot.
BytesPerPage == 4096
SlotBytes == 8

\* The write calls made on the page.
MaxWrites == 4

\* value.to_bytes(8, byteorder='little', signed=True), bytes 1 .. 8, for a value
\* of 32 bits (all values of the model are): two's complement, sign-extended.
to_bytes(value) ==
    [i \in 1 .. SlotBytes |->
        IF i <= 4 THEN (value \div (256 ^ (i - 1))) % 256
        ELSE IF value < 0 THEN 255 ELSE 0]

\* int.from_bytes(data_bytes, byteorder='little', signed=True) of 8 bytes that
\* hold a value of 32 bits.
from_bytes(data_bytes) ==
    IF data_bytes[SlotBytes] >= 128
    THEN -1 - ((255 - data_bytes[1]) + 256 * (255 - data_bytes[2])
                   + 65536 * (255 - data_bytes[3]) + 16777216 * (255 - data_bytes[4]))
    ELSE data_bytes[1] + 256 * data_bytes[2] + 65536 * data_bytes[3]
             + 16777216 * data_bytes[4]

\* Page.__init__: num_records and the zeroed data (bytes 1 .. 4096).
Page_new == [num_records |-> 0, data |-> [j \in 1 .. BytesPerPage |-> 0]]

\* A faulty capacity test that admits one write too many.
Page_has_capacity_inclusive(p) == p.num_records <= PageCapacity

\* Page.has_capacity.
Page_has_capacity(p) == p.num_records < PageCapacity

\* Page.write: [page, result].
Page_write(p, value) ==
    IF Page_has_capacity(p)
    THEN LET offset == p.num_records * SlotBytes
         IN  [page |-> [num_records |-> p.num_records + 1,
                        data |-> [j \in 1 .. BytesPerPage |->
                                     IF j > offset /\ j <= offset + SlotBytes
                                     THEN to_bytes(value)[j - offset]
                                     ELSE p.data[j]]],
              result |-> TRUE]
    ELSE [page |-> p, result |-> FALSE]

\* Page.read(slot), slot 0-based.
Page_read(p, slot) == from_bytes([i \in 1 .. SlotBytes |-> p.data[SlotBytes * slot + i]])

\* The page after n writes: slot s was written s - 256.
Prefilled(n) ==
    [num_records |-> n,
     data |-> [j \in 1 .. BytesPerPage |->
                  IF (j - 1) \div SlotBytes < n
                  THEN to_bytes(((j - 1) \div SlotBytes) - 256)[((j - 1) % SlotBytes) + 1]
                  ELSE 0]]

PageValues == {-70000, -1, 0, 300}

\* A new page, or a page two writes short of full.
InitPage ==
    /\ one_page \in {[page |-> pg, written |-> <<>>] :
                        pg \in {Page_new, Prefilled(PageCapacity - 2)}}
    /\ keyed = <<>>
    /\ bplus_tree = <<>>
    /\ singleton = <<>>
    /\ table = InitialTable
    /\ lock_manager = NewLockManager
    /\ queries = <<>>
    /\ worker = <<>>
    /\ hist = <<>>
    /\ ref = <<>>
    /\ allocated = <<>>
    /\ stamp = 1
    /\ plain = TRUE
    /\ inserting = <<>>
    /\ versions = <<>>
    /\ mutexes = <<>>
    /\ calls = <<>>
    /\ updating = <<>>

\* page.write(value): the whole call runs under the page's RLock.
Write(value) ==
    /\ Len(one_page.written) < MaxWrites
    /\ \E r \in {Page_write(one_page.page, value)} :
           one_page' = [page |-> r.page,
                        written |-> Append(one_page.written,
                                           [value |-> value, result |-> r.result])]
    /\ UNCHANGED <<table, seqvars, txnvars, inserting, versions, mutexes, calls, updating,
                   singleton, keyed, bplus_tree>>

NextPage == \E value \in PageValues : Write(value)

SpecPage == InitPage /\ [][NextPage]_vars

\* --------------------------- a transaction on a table with another key column
\* The tables of this section have key column 0 or key column KeyColumn. Table,
\* Index and Query reach the key column through table.key everywhere, so the
\* table with key column kc is held with its columns 0 and kc exchanged and the
\* operators of lstore/query.py above apply to it as they are; a column number
\* written as a literal in transaction.py is translated by Column.
KeyColumn == 1

KeyColumns == {key, KeyColumn}

\* The stored column of the column a caller of a table with key column kc numbers c.
Column(kc, c) == IF c = 0 THEN kc ELSE IF c = kc THEN 0 ELSE c

\* args[0] of an operation on a table with key column kc: the first column of the
\* record for an insert, the primary key for a select, an update and a delete.
FirstArgument(kc, op) ==
    IF op.query_name = "insert" THEN Row(op.k, op.v)[Column(kc, 0) + 1] ELSE op.k

\* Transaction._get_record_snapshot on a table with key column kc:
\* query.select(primary_key, 0, [1] * table.num_columns).
get_record_snapshot_keyed(kc, tbl, primary_key) ==
    LET records == Query_select(tbl, primary_key, Column(kc, 0), AllColumns)
    IN  IF Len(records) > 0
        THEN Some([columns |-> [i \in 1 .. num_columns |-> Val(records[1].columns[i])],
                   rid     |-> records[1].rid])
        ELSE None

\* Transaction._prepare_operation on a table with key column kc.
prepare_operation_keyed(kc, tbl, op) ==
    [op           |-> op,
     old_record   |-> IF op.query_name \in {"update", "delete"}
                      THEN get_record_snapshot_keyed(kc, tbl, op.k) ELSE None,
     inserted_key |-> IF op.query_name = "insert" THEN Some(FirstArgument(kc, op)) ELSE None]

\* The record id Transaction._acquire_locks_for_operation locks for a select, an
\* insert, an update or a delete: _get_record_id(table, args[0]).
record_id_keyed(kc, op) == get_record_id(FirstArgument(kc, op))

\* Transaction._rollback_operation with the inserted_key of the operation_info.
rollback_operation_keyed(tbl, operation_info) ==
    LET op == operation_info.op
        old_record == operation_info.old_record
    IN  IF op.query_name = "insert"
        THEN Query_delete(tbl, Val(operation_info.inserted_key)).table
        ELSE IF op.query_name = "update" /\ old_record # None
        THEN Query_update(tbl, op.k,
                 [i \in 1 .. num_columns |-> Some(Val(old_record).columns[i])]).table
        ELSE IF op.query_name = "delete" /\ old_record # None
        THEN Query_insert(tbl, Val(old_record).columns).table
        ELSE tbl

\* The loop of Transaction.abort over reversed(executed_operations).
RECURSIVE rollback_all_keyed(_, _)
rollback_all_keyed(tbl, executed_operations) ==
    IF executed_operations = <<>> THEN tbl
    ELSE rollback_all_keyed(
             rollback_operation_keyed(tbl, executed_operations[Len(executed_operations)]),
             SubSeq(executed_operations, 1, Len(executed_operations) - 1))

\* One run of Transaction.run: the table, the lock manager, the operations
\* executed, the record ids locked so far, and the value run() returned.
NewRun ==
    [table |-> InitialTable, lm |-> NewLockManager, executed_operations |-> <<>>,
     locked |-> <<>>, returned |-> None]

\* The id of the first Transaction constructed (_next_transaction_id).
KeyedTid == 0

\* One pass of the loop of Transaction.run on the table with key column kc, the
\* transaction running alone: prepare, lock, execute; abort when the query
\* returns False; commit after the last operation.
RunOperation(kc, run, txn) ==
    IF run.returned # None THEN run
    ELSE IF Len(run.executed_operations) = Len(txn)
    THEN [run EXCEPT !.lm = release_all(@, KeyedTid), !.executed_operations = <<>>,
                     !.returned = Some(TRUE)]
    ELSE LET op == txn[Len(run.executed_operations) + 1]
             operation_info == prepare_operation_keyed(kc, run.table, op)
             record_id == record_id_keyed(kc, op)
             a == IF op.query_name = "select" THEN acquire_shared(run.lm, KeyedTid, record_id)
                  ELSE acquire_exclusive(run.lm, KeyedTid, record_id)
             r == call_query(run.table, op)
             locked == Append(run.locked, record_id)
         IN  IF ~a.success \/ r.failed
             THEN [run EXCEPT !.table = rollback_all_keyed(r.table, run.executed_operations),
                              !.lm = release_all(a.lm, KeyedTid),
                              !.executed_operations = <<>>,
                              !.locked = locked,
                              !.returned = Some(FALSE)]
             ELSE [run EXCEPT !.table = r.table, !.lm = a.lm, !.locked = locked,
                              !.executed_operations = Append(@, operation_info)]

\* The operations of the transactions: key NewKey has no record, key NewKey + 1
\* never has one.
KeyedOperations ==
    {select(1), insert(NewKey, 40), insert(NewKey, 1), update(1, 77), delete(2),
     delete(NewKey + 1)}

KeyedTransactions ==
    UNION {[1 .. n -> KeyedOperations] : n \in 1 .. 3}

InitKeyed ==
    /\ keyed \in {[txn |-> txn, run |-> [kc \in KeyColumns |-> NewRun]] :
                     txn \in KeyedTransactions}
    /\ bplus_tree = <<>>
    /\ one_page = <<>>
    /\ singleton = <<>>
    /\ table = InitialTable
    /\ lock_manager = NewLockManager
    /\ queries = <<>>
    /\ worker = <<>>
    /\ hist = <<>>
    /\ ref = <<>>
    /\ allocated = <<>>
    /\ stamp = 1
    /\ plain = TRUE
    /\ inserting = <<>>
    /\ versions = <<>>
    /\ mutexes = <<>>
    /\ calls = <<>>
    /\ updating = <<>>

\* The next pass of the loop of run(), on both tables.
RunNext ==
    /\ \E kc \in KeyColumns : keyed.run[kc].returned = None
    /\ keyed' = [keyed EXCEPT !.run = [kc \in KeyColumns |->
                                          RunOperation(kc, keyed.run[kc], keyed.txn)]]
    /\ UNCHANGED <<table, seqvars, txnvars, inserting, versions, mutexes, calls, updating,
                   singleton, one_page, bplus_tree>>

NextKeyed == RunNext

SpecKeyed == InitKeyed /\ [][NextKeyed]_vars

\* ------------------------------------------------ one B+-tree, built by inserts
\* The values inserted: enough of them for a split of an internal node.
MaxValue == 10

Values == 1 .. MaxValue

\* The rid inserted with a value: the higher the value, the lower the rid.
RidOf(value) == 100 - value

InitTree ==
    /\ bplus_tree = [tree |-> NewTree, ref |-> <<>>]
    /\ keyed = <<>>
    /\ one_page = <<>>
    /\ singleton = <<>>
    /\ table = InitialTable
    /\ lock_manager = NewLockManager
    /\ queries = <<>>
    /\ worker = <<>>
    /\ hist = <<>>
    /\ ref = <<>>
    /\ allocated = <<>>
    /\ stamp = 1
    /\ plain = TRUE
    /\ inserting = <<>>
    /\ versions = <<>>
    /\ mutexes = <<>>
    /\ calls = <<>>
    /\ updating = <<>>

\* tree.insert(value, rid) of a value not inserted before.
TreeInsert(value) ==
    /\ value \notin DOMAIN bplus_tree.ref
    /\ bplus_tree' = [tree |-> BPlusTree_insert(bplus_tree.tree, value, RidOf(value)),
                      ref  |-> (value :> RidOf(value)) @@ bplus_tree.ref]
    /\ UNCHANGED <<table, seqvars, txnvars, inserting, versions, mutexes, calls, updating,
                   singleton, one_page, keyed>>

NextTree == \E value \in Values : TreeInsert(value)

SpecTree == InitTree /\ [][NextTree]_vars

\* ------------------------------------------------------------------ claims
\* The records on which transaction tid is a holder in the lock table.
Held(lm, tid) ==
    {r \in DOMAIN lm.locks : \/ tid \in lm.locks[r].shared_holders
                             \/ lm.locks[r].exclusive_holder = Some(tid)}

\* The transaction ids of the transactions of worker w.
TidsOf(w) == TxnsBefore(w) .. (TxnsBefore(w) + Len(queries[w]) - 1)

\* The step is worker w's run() returning False (abort) / returning at all.
Aborted(w) == worker[w].pc # "prepare" /\ worker'[w] = AfterAbort(worker[w])
Returned(w) == Aborted(w) \/ (worker[w].pc = "commit" /\ worker'[w] = AfterCommit(worker[w]))

\* Worker w is between two run() calls (or before the first, or after the last).
AtBoundary(w) == worker[w].pc = "prepare" /\ worker[w].i = 0

\* C1: when a transaction that runs with no concurrent activity aborts, after run()
\* returned the set of keys for which select returns a record, and the column
\* values select returns for them, are what they were when run() was called.
C1_AbortRestoresVisibleState ==
    [][\A w \in Workers : (Alone(w) /\ Aborted(w)) => Visible(table') = hist[w].before]_vars

\* C2: when a transaction aborts, every record it had updated gets back the column
\* values it held at the moment the aborting transaction acquired its exclusive
\* lock on that record.
C2_AbortRestoresLockedValues ==
    [][\A w \in Workers : Aborted(w) =>
          \A j \in 1 .. Len(worker[w].executed_operations) :
              LET op == worker[w].executed_operations[j].op
              IN  op.query_name = "update"
                      => Selected(table', op.k) = hist[w].locked[op.k]]_vars

\* Transaction.run of a list of operations with no other thread running: the
\* table after the commit, or after the abort at the first operation that fails.
RECURSIVE run_alone(_, _, _)
run_alone(tbl, ops, executed_operations) ==
    IF ops = <<>> THEN tbl
    ELSE LET info == prepare_operation(tbl, Head(ops))
             r    == call_query(tbl, Head(ops))
         IN  IF r.failed THEN rollback_all(r.table, executed_operations)
             ELSE run_alone(r.table, Tail(ops), Append(executed_operations, info))

\* The workers whose transaction committed, and the orders to run them in.
Committed == {w \in Workers : \E j \in 1 .. Len(worker[w].stats) : worker[w].stats[j]}

Orders(S) == {f \in [1 .. Cardinality(S) -> S] : \A a, b \in DOMAIN f : a # b => f[a] # f[b]}

RECURSIVE run_in_order(_, _, _)
run_in_order(tbl, f, n) ==
    IF n > Len(f) THEN tbl
    ELSE run_in_order(run_alone(tbl, queries[f[n]][1], <<>>), f, n + 1)

AllFinished == \A w \in Workers : ~Active(w)

\* Several workers have transactions to run.
SeveralWorkers == Cardinality({w \in Workers : queries[w] # <<>>}) > 1

\* C3: with several workers, once all workers have finished, what select shows for
\* every key equals what it shows after running the committed transactions one at
\* a time, from the same initial table, in some serial order.
C3_FinalStateSerializable ==
    (SeveralWorkers /\ AllFinished) =>
        \E f \in Orders(Committed) : Visible(table) = Visible(run_in_order(InitialTable, f, 1))

\* C4: for every record of the lock table, at every moment: when a transaction
\* holds the record exclusively no other transaction is a shared holder of it, and
\* several transactions are shared holders together only while nobody holds it
\* exclusively (a record has one exclusive_holder field, so at most one).
C4_LockInvariant ==
    \A r \in DOMAIN lock_manager.locks :
        LET lock == lock_manager.locks[r]
        IN  /\ lock.exclusive_holder # None
                => lock.shared_holders \subseteq {Val(lock.exclusive_holder)}
            /\ Cardinality(lock.shared_holders) > 1 => lock.exclusive_holder = None

\* A record is held exclusively by one transaction while another transaction,
\* not a holder of it, is about to request it.
C4_Witness ==
    \E w \in Workers, u \in Workers :
        /\ w # u /\ Active(w) /\ Active(u)
        /\ worker[u].pc = "acquire"
        /\ Op(u).k \in DOMAIN lock_manager.locks
        /\ lock_manager.locks[Op(u).k].exclusive_holder = Some(transaction_id(w))
        /\ transaction_id(u) \notin lock_manager.locks[Op(u).k].shared_holders

\* C5: a transaction keeps every lock it acquired until run() returns: no step
\* other than the commit or abort that ends its run takes it off a record; and
\* between runs it is a holder of no record and has no ledger entry.
C5_StrictTwoPhase ==
    /\ [](\A w \in Workers : AtBoundary(w) =>
             \A t \in TidsOf(w) : /\ Held(lock_manager, t) = {}
                                  /\ t \notin DOMAIN lock_manager.transaction_locks)
    /\ [][\A w \in Workers : \A t \in TidsOf(w) :
             Returned(w) \/ Held(lock_manager, t) \subseteq Held(lock_manager', t)]_vars

\* A worker whose transaction locked two records is back between runs after an
\* abort, and another worker's transaction committed.
C5_Witness ==
    \E w \in Workers, u \in Workers :
        /\ AtBoundary(w) /\ worker[w].retry_count > 0
        /\ Cardinality(DOMAIN hist[w].locked) > 1
        /\ worker[u].stats = <<TRUE>>

\* The worker whose transaction wrote value v (0: a value of the initial table).
Writer(v) == v \div 100

\* C6: a select executed inside a transaction never returns a column value written
\* by an update of another transaction that has not committed at that moment.
C6_NoDirtyRead ==
    \A w \in Workers :
        \A j \in 1 .. Len(worker[w].executed_operations) :
            LET e == worker[w].executed_operations[j]
            IN  e.op.query_name = "select" =>
                    \A n \in 1 .. Len(e.result) : \A c \in 1 .. num_columns :
                        (c # key + 1 /\ Writer(e.result[n][c]) \in Workers \ {w})
                            => Writer(e.result[n][c]) \in Committed

\* C7: an insert whose primary-key value is already in the primary-key index is
\* rejected: it allocates no rid and leaves the table (base pages, page directory,
\* index, rid counter) unchanged; and no two live records share a primary-key value.
C7_DuplicateInsertRejected ==
    /\ [](\A k \in Keys : Cardinality(LiveRids(table, k)) <= 1)
    /\ [][\A k \in Keys : (InIndex(table, k) /\ Insert(k))
                             => (table' = table /\ allocated' = allocated)]_vars

\* The insert_row call of thread t has returned.
Inserted(t) == inserting[t].pc = "done"

\* C8: when threads insert records with distinct keys concurrently, the page
\* directory entry of every inserted record points, for every column, to a base
\* slot holding that record's own value, no two inserted rids share a base slot,
\* and select of each inserted key returns exactly the values inserted for it.
C8_InsertRowAtomic ==
    \A t \in Threads : Inserted(t) =>
        LET positions == table.page_directory[inserting[t].rid]
        IN  /\ \A c \in Cols : read_column(table, c, positions[c + 1]) = inserting[t].columns[c + 1]
            /\ \A u \in Threads \ {t} : Inserted(u) =>
                   \A c \in Cols : table.page_directory[inserting[u].rid][c + 1] # positions[c + 1]
            /\ Selected(table, inserting[t].columns[key + 1]) = <<inserting[t].columns>>

\* C9: after a sequence of direct insert, update and delete calls that inserts only
\* keys without a live record (a deleted key may be inserted again), select returns
\* exactly one record for every key with a live record, carrying the values last
\* written by the latest insert or update of that key.
C9_SelectReadsLatest ==
    plain => \A k \in DOMAIN ref : Selected(table, k) = <<ref[k]>>

\* C10: every rid insert_row returns is strictly greater than every rid it returned
\* earlier for the table, also after deletes and after close() followed by open().
C10_RidsStrictlyIncrease ==
    \A i, j \in 1 .. Len(allocated) : i < j => allocated[i] < allocated[j]
\* The number of updates record k has received.
HistoryLength(k) == Len(versions[k]) - 1

\* What select_version(k, key, all columns, -j) shows: the list of column tuples.
SelectedVersion(tbl, k, j) ==
    LET records == Query_select_version(tbl, k, key, AllColumns, -j)
    IN  [n \in 1 .. Len(records) |-> [i \in 1 .. num_columns |-> Val(records[n].columns[i])]]

\* C11: for a record that received h updates of arbitrary column subsets,
\* select_version with relative_version = -j, 0 <= j <= h, returns in every
\* projected column the value the record had before its j most recent updates
\* (j = 0 the current values, j = h the inserted values).
C11_SelectVersionReadsHistory ==
    \A k \in DOMAIN versions : \A j \in 0 .. HistoryLength(k) :
        SelectedVersion(table, k, j) = <<versions[k][HistoryLength(k) + 1 - j]>>

\* C15: in every lock state, acquire_exclusive(T, r) is granted exactly when the
\* exclusive holder is T, or there is no exclusive holder and the shared holders
\* are empty or {T}; after a grant T is the exclusive holder of r and not a shared
\* holder of r.
C15_ExclusiveGrantRule ==
    \A tid \in LockTids, record_id \in LockRecords :
        LET before == get_lock(lock_manager.locks, record_id)[record_id]
            call   == acquire_exclusive(lock_manager, tid, record_id)
            after  == get_lock(call.lm.locks, record_id)[record_id]
        IN  /\ call.success <=>
                 \/ before.exclusive_holder = Some(tid)
                 \/ /\ before.exclusive_holder = None
                    /\ before.shared_holders \in {{}, {tid}}
            /\ call.success =>
                 /\ after.exclusive_holder = Some(tid)
                 /\ tid \notin after.shared_holders
                 /\ after.shared_holders = before.shared_holders \ {tid}

\* A state in which a transaction that is the only shared holder of a record is
\* granted the exclusive lock (upgrade) while another record is locked by others.
C15_Witness ==
    \E tid \in LockTids, record_id \in LockRecords, other \in LockRecords :
        /\ record_id \in DOMAIN lock_manager.locks /\ other \in DOMAIN lock_manager.locks
        /\ lock_manager.locks[record_id] = [shared_holders |-> {tid}, exclusive_holder |-> None]
        /\ Cardinality(lock_manager.locks[other].shared_holders \ {tid}) = 2
        /\ acquire_exclusive(lock_manager, tid, record_id).success
        /\ ~acquire_exclusive(lock_manager, tid, other).success

\* C16: in every lock state, acquire_shared(T, r) is granted exactly when r has no
\* exclusive holder or its exclusive holder is T; a grant adds T to the shared
\* holders of r and changes nothing else of r's state.
C16_SharedGrantRule ==
    \A tid \in LockTids, record_id \in LockRecords :
        LET before == get_lock(lock_manager.locks, record_id)[record_id]
            call   == acquire_shared(lock_manager, tid, record_id)
            after  == get_lock(call.lm.locks, record_id)[record_id]
        IN  /\ call.success <=> before.exclusive_holder \in {None, Some(tid)}
            /\ call.success =>
                 /\ after.shared_holders = before.shared_holders \cup {tid}
                 /\ after.exclusive_holder = before.exclusive_holder

\* A state in which one record has an exclusive holder whose own shared request is
\* granted and another transaction's is refused, and a record with a shared holder
\* takes a second one.
C16_Witness ==
    \E tid \in LockTids, record_id \in LockRecords :
    \E u \in LockTids \ {tid}, other \in LockRecords \ {record_id} :
        /\ record_id \in DOMAIN lock_manager.locks /\ other \in DOMAIN lock_manager.locks
        /\ lock_manager.locks[record_id].exclusive_holder = Some(tid)
        /\ acquire_shared(lock_manager, tid, record_id).success
        /\ ~acquire_shared(lock_manager, u, record_id).success
        /\ lock_manager.locks[other].shared_holders = {tid}
        /\ acquire_shared(lock_manager, u, other).success

\* C17: a refused acquire_shared or acquire_exclusive changes nothing: the holder
\* sets of every record, the locks the requesting transaction holds and every
\* transaction's ledger are as before the call.
C17_RefusalChangesNothing ==
    \A tid \in LockTids, record_id \in LockRecords :
        LET shared    == acquire_shared(lock_manager, tid, record_id)
            exclusive == acquire_exclusive(lock_manager, tid, record_id)
        IN  /\ ~shared.success => shared.lm = lock_manager
            /\ ~exclusive.success => exclusive.lm = lock_manager

\* A state in which the upgrade of a transaction's own shared lock is refused
\* (another transaction shares the record) and a shared request of a third
\* transaction is refused on a record held exclusively.
C17_Witness ==
    \E tid \in LockTids, record_id \in LockRecords :
    \E u \in LockTids \ {tid}, other \in LockRecords \ {record_id} :
        /\ record_id \in DOMAIN lock_manager.locks /\ other \in DOMAIN lock_manager.locks
        /\ lock_manager.locks[record_id].shared_holders = {tid, u}
        /\ <<record_id, "SHARED">> \in {Ledger(lock_manager, tid)[n] :
                                          n \in 1 .. Len(Ledger(lock_manager, tid))}
        /\ ~acquire_exclusive(lock_manager, tid, record_id).success
        /\ lock_manager.locks[other].exclusive_holder = Some(u)
        /\ ~acquire_shared(lock_manager, tid, other).success

\* The records tid holds in lm, with the manner it holds each.
HeldBy(lm, tid) ==
    {<<record_id, m>> \in (DOMAIN lm.locks) \X {"SHARED", "EXCLUSIVE"} :
        IF m = "SHARED" THEN tid \in lm.locks[record_id].shared_holders
        ELSE lm.locks[record_id].exclusive_holder = Some(tid)}

\* C18: after release_all(T), T is neither shared nor exclusive holder of any
\* record and has no ledger entry; the holdings and ledgers of every other
\* transaction are unchanged; release_all of a transaction that holds nothing
\* changes nothing.
C18_ReleaseAllFrame ==
    \A tid \in LockTids :
        LET after == release_all(lock_manager, tid)
        IN  /\ HeldBy(after, tid) = {}
            /\ tid \notin DOMAIN after.transaction_locks
            /\ \A u \in LockTids \ {tid} :
                 /\ HeldBy(after, u) = HeldBy(lock_manager, u)
                 /\ Ledger(after, u) = Ledger(lock_manager, u)
                 /\ u \in DOMAIN after.transaction_locks <=>
                        u \in DOMAIN lock_manager.transaction_locks
            /\ DOMAIN after.locks = DOMAIN lock_manager.locks
            /\ (HeldBy(lock_manager, tid) = {} /\ Ledger(lock_manager, tid) = <<>>)
                   => after.locks = lock_manager.locks

\* A state in which a transaction holds an exclusive lock on one record and shares
\* another record with a second transaction, and a third transaction holds nothing.
C18_Witness ==
    \E tid \in LockTids, record_id \in LockRecords :
    \E u \in LockTids \ {tid}, other \in LockRecords \ {record_id} :
    \E idle \in LockTids \ {tid, u} :
        /\ HeldBy(lock_manager, tid) = {<<record_id, "EXCLUSIVE">>, <<other, "SHARED">>}
        /\ HeldBy(lock_manager, u) = {<<other, "SHARED">>}
        /\ HeldBy(lock_manager, idle) = {}
        /\ idle \notin DOMAIN lock_manager.transaction_locks

\* C14: when a lock needed by an operation is refused, run() returns false at
\* once: that operation and the later ones are not executed, every operation
\* executed earlier is rolled back (the record it wrote shows what it showed when
\* the transaction locked it) and the transaction holds no lock and has no ledger.
C14_RefusedLockAborts ==
    [][\A w \in Workers : (worker[w].pc = "acquire" /\ Aborted(w)) =>
          /\ Held(lock_manager', transaction_id(w)) = {}
          /\ transaction_id(w) \notin DOMAIN lock_manager'.transaction_locks
          /\ \A j \in 1 .. Len(worker[w].executed_operations) :
               LET op == worker[w].executed_operations[j].op
               IN  op.query_name \in {"insert", "update", "delete"}
                       => Selected(table', op.k) = hist[w].locked[op.k]]_vars

C20_SuccessfulOperationsCommit ==
    [][\A w \in Workers : (worker[w].pc = "execute" /\ Aborted(w)) =>
          LET op == Op(w)
          IN  IF op.query_name \in {"select", "select_version"} THEN FALSE
              ELSE IF op.query_name = "sum" THEN Query_sum(table, op.k, op.v, 1) = None
              ELSE IF op.query_name = "sum_version"
              THEN Query_sum_version(table, op.k, op.v, 1, -1) = None
              ELSE call_query(table, op).result = <<FALSE>>]_vars

\* run() of a list of operations with no other thread running returns True.
RECURSIVE commits_alone(_, _)
commits_alone(tbl, ops) ==
    IF ops = <<>> THEN TRUE
    ELSE LET r == call_query(tbl, Head(ops))
         IN  ~r.failed /\ commits_alone(r.table, Tail(ops))

\* C12: every transaction handed to a worker whose operations all succeed when
\* it runs alone is eventually committed (its stats entry is True). A stats entry
\* is written once, when the worker leaves the transaction, so a worker that has
\* finished its list has True for each such transaction.
C12_EveryTransactionCommits ==
    \A w \in Workers : \A j \in 1 .. Len(worker[w].stats) :
        commits_alone(InitialTable, queries[w][j]) => worker[w].stats[j]

\* C13: no worker thread is ever stuck: a thread inside a call of the lock manager
\* or of a query either can take its next step, or waits for a mutex whose owner
\* is another thread that can take its next step (no thread waits for itself and
\* no two threads wait for each other); a request for a record lock is answered
\* inside the call, granted or refused, without waiting for the record's holder.
C13_NoDeadlock ==
    \A t \in MutexThreads :
        IF CanStep(t) THEN TRUE
        ELSE LET h == Val(HeldMutex(Head(calls[t])[2]))
             IN  h.owner # t /\ CanStep(h.owner)

\* A thread inside release_all holds manager_lock and the mutex of a record's Lock
\* while another thread, inside an acquire call for that record, waits for one of
\* the two.
C13_Witness ==
    \E t \in MutexThreads, u \in MutexThreads :
        /\ HeldMutex(<<"manager_lock", 0>>) # None
        /\ Val(HeldMutex(<<"manager_lock", 0>>)).owner = t
        /\ \E r \in LockRecords :
              /\ HeldMutex(<<"Lock", r>>) # None
              /\ Val(HeldMutex(<<"Lock", r>>)).owner = t
              /\ u # t /\ ~CanStep(u)
              /\ Head(calls[u])[2] = <<"Lock", r>>

\* The update call of worker w has returned.
Updated(w) == updating[w].pc = "done"

\* C21: when workers update distinct keys concurrently, every updated key reads
\* back its own new value, the newest version-chain entry of its record points,
\* for every changed column, to a tail slot holding that record's own pre-update
\* value, and select_version(k, ..., -1) returns the record's own previous values.
C21_ConcurrentUpdatesKeepVersions ==
    \A w \in Workers : Updated(w) =>
        LET k     == updating[w].primary_key
            entry == table.version_chain[updating[w].rid][1]
            old   == Selected(InitialTable, k)[1]
        IN  /\ Selected(table, k) = <<Merge(old, updating[w].columns)>>
            /\ \A c \in Cols : updating[w].columns[c + 1] # None =>
                   PageRead(table.tail_page[c][entry[c + 1][1] + 1], entry[c + 1][2]) = old[c + 1]
            /\ SelectedVersion(table, k, 1) = <<old>>

\* The step is the direct call delete(k) returning True.
Deleted(k) == Delete(k) /\ Query_delete(table, k).result

\* C22: after any sequence of insert, update and delete, the page directory holds
\* exactly the rids of the records inserted and not deleted (an insert adds the
\* rid it returns, a delete that returns True removes one rid, nothing else
\* changes the set), and the primary-key index maps the current primary-key value
\* of every record of the page directory to its rid, also after an update that
\* rewrote the primary-key column.
C22_DirectoryAndIndexAgree ==
    /\ [](\A rid \in DOMAIN table.page_directory :
            LET k == read_column(table, key, table.page_directory[rid][key + 1])
            IN  \E n \in 1 .. Len(BPlusTree_locate(table.index, k)) :
                    BPlusTree_locate(table.index, k)[n] = rid)
    /\ [][/\ (\E k \in Keys : Insert(k))
              => DOMAIN table.page_directory' =
                     DOMAIN table.page_directory \cup {allocated'[Len(allocated')]}
          /\ \A k \in Keys : Deleted(k)
              => /\ DOMAIN table.page_directory' \subseteq DOMAIN table.page_directory
                 /\ Cardinality(DOMAIN table.page_directory') =
                        Cardinality(DOMAIN table.page_directory) - 1
          /\ ~((\E k \in Keys : Insert(k)) \/ (\E k \in Keys : Deleted(k)))
              => DOMAIN table.page_directory' = DOMAIN table.page_directory]_vars

\* The argument lists of update(k, ...) tried in a state: every column kept or
\* written, the primary-key column with a key no record has.
UpdateArguments(k) ==
    {columns \in [1 .. num_columns -> {None, Some(NewKey), Some(7)}] :
        \A i \in 1 .. num_columns :
            IF i = key + 1 THEN columns[i] # Some(7)
            ELSE columns[i] \in {None, Some(7)}}

\* C23: in every state reached by updates, when update(k, cols) returns True,
\* select(k) afterwards
\* returns one record that holds, in each column, the value cols gave or, where
\* cols gave None, the value select(k) returned before; its rid is the rid select
\* returned before and the page directory is unchanged.
C23_UpdateMerges ==
    \A k \in VersionedKeys \cup {NewKey} : \A columns \in UpdateArguments(k) :
        \A r \in {Query_update(table, k, columns)} :
            r.result =>
                \A before \in {Query_select(table, k, key, AllColumns)} :
                \A after \in {Query_select(r.table, k, key, AllColumns)} :
                    /\ Len(before) = 1 /\ Len(after) = 1
                    /\ [i \in 1 .. num_columns |-> Val(after[1].columns[i])]
                           = Merge([i \in 1 .. num_columns |-> Val(before[1].columns[i])],
                                   columns)
                    /\ after[1].rid = before[1].rid
                    /\ r.table.page_directory = table.page_directory

\* A record that was updated twice before is updated again, with a new primary
\* key and with a kept column, and an update of a key without record returns False.
C23_Witness ==
    /\ \E k \in DOMAIN versions : HistoryLength(k) >= 2
            /\ Query_update(table, k, SetKey(NewKey)).result
            /\ Query_update(table, k, SetValue(7)).result
    /\ ~Query_update(table, NewKey, SetValue(7)).result

\* The value k is in no base or tail slot of the primary-key column: no insert
\* and no update ever wrote k as a primary key.
NeverInserted(tbl, k) ==
    \A n \in 1 .. Len(tbl.base_page[key]) : \A m \in 1 .. Len(tbl.tail_page[key]) :
        /\ \A i \in 1 .. Len(tbl.base_page[key][n]) : tbl.base_page[key][n][i] # k
        /\ \A i \in 1 .. Len(tbl.tail_page[key][m]) : tbl.tail_page[key][m][i] # k

RECURSIVE WithoutRid(_, _)
WithoutRid(rid_list, rid) ==
    IF rid_list = <<>> THEN <<>>
    ELSE (IF Head(rid_list) # rid THEN <<Head(rid_list)>> ELSE <<>>)
         \o WithoutRid(Tail(rid_list), rid)

\* C24: in every state, when delete(k) returns True then afterwards select(k)
\* returns the empty list, a sum over all keys is the sum without the deleted
\* record, a second delete(k) returns False, and the table differs from the table
\* before in the page-directory entry of the record only (base pages, tail pages,
\* version chains, index and rid counter are unchanged); when delete(k) returns
\* False the table is unchanged; delete of a key never inserted returns False.
C24_DeleteRemovesDirectoryEntry ==
    \A k \in TxnKeys :
        \A d \in {Query_delete(table, k)} :
            /\ NeverInserted(table, k) => ~d.result
            /\ ~d.result => d.table = table
            /\ d.result =>
                 \A rid \in {Val(Index_locate(table, key, k))} :
                     /\ Query_select(d.table, k, key, AllColumns) = <<>>
                     /\ ~Query_delete(d.table, k).result
                     /\ rid \in DOMAIN table.page_directory
                     /\ d.table = [table EXCEPT !.page_directory =
                                      [r \in DOMAIN @ \ {rid} |-> @[r]]]
                     /\ \A rest \in {SumValues(table,
                                        WithoutRid(Index_locate_range(table, 1, NewKey, key), rid),
                                        1, 0)} :
                            Query_sum(d.table, 1, NewKey, 1)
                                = IF rest.found THEN Some(rest.output) ELSE None

\* A record that was updated (it has a version chain) can be deleted, another key
\* has a stale index entry of a deleted record, and one key was never inserted.
C24_Witness ==
    /\ \E k \in Keys :
          /\ Query_delete(table, k).result
          /\ Val(Index_locate(table, key, k)) \in DOMAIN table.version_chain
    /\ \E k \in Keys : InIndex(table, k) /\ ~Query_delete(table, k).result
    /\ \E k \in Keys : NeverInserted(table, k)

\* C25: in every state, after close() and open() of the same path in a fresh
\* Database, select returns for every key what it returned before close, and so
\* does select_version at every relative version 0, -1, ..., -(MaxUpdates + 1);
\* a key deleted before close is still absent.
C25_ReopenKeepsSelects ==
    \A reopened \in {load_table_data(save_table_data(table))} :
        \A k \in TxnKeys :
            /\ Query_select(reopened, k, key, AllColumns)
                   = Query_select(table, k, key, AllColumns)
            /\ \A j \in 0 .. MaxUpdates + 1 :
                   Query_select_version(reopened, k, key, AllColumns, -j)
                       = Query_select_version(table, k, key, AllColumns, -j)

\* self.result of worker w: 0 from the constructor until __run has gone through
\* its list, then the number of true entries of stats.
TransactionWorker_result(w) ==
    IF Active(w) THEN 0
    ELSE Cardinality({j \in 1 .. Len(worker[w].stats) : worker[w].stats[j]})

\* The transactions of worker w, by position in its list, whose run() returned
\* True or were given up, read from stats.
TrueEntries(w) == {j \in 1 .. Len(worker[w].stats) : worker[w].stats[j]}

\* C26: stats of a worker holds one boolean for each transaction it has gone
\* through, in list order (so one per transaction of the list when the thread has
\* finished); an entry is appended exactly when the worker moves on to the next
\* transaction, True exactly when the step is the commit of run(), False when the
\* step is the abort that exhausts the retries; result of a finished worker is the
\* number of True entries.
C26_StatsPerTransaction ==
    /\ [](\A w \in Workers :
             /\ Len(worker[w].stats) = worker[w].cur - 1
             /\ ~Active(w) => /\ Len(worker[w].stats) = Len(queries[w])
                              /\ TransactionWorker_result(w) = Cardinality(TrueEntries(w)))
    /\ [][\A w \in Workers :
             /\ worker'[w].stats # worker[w].stats
                    => /\ worker'[w].cur = worker[w].cur + 1
                       /\ IF worker[w].pc = "commit"
                          THEN worker'[w].stats = Append(worker[w].stats, TRUE)
                          ELSE /\ worker'[w].stats = Append(worker[w].stats, FALSE)
                               /\ worker[w].retry_count + 1 = max_retries
             /\ (worker[w].pc = "commit" /\ worker'[w] # worker[w])
                    => worker'[w].stats = Append(worker[w].stats, TRUE)
             /\ worker'[w].cur # worker[w].cur
                    => worker'[w].stats # worker[w].stats]_vars

\* All workers have finished, one with a transaction given up, one with two
\* committed transactions.
C26_Witness ==
    /\ AllFinished
    /\ \E w \in Workers : worker[w].stats = <<FALSE>> /\ TransactionWorker_result(w) = 0
    /\ \E w \in Workers : worker[w].stats = <<TRUE, TRUE>> /\ TransactionWorker_result(w) = 2

\* The step is worker w's run() returning False for the max_retries-th time.
LastAbort(w) ==
    /\ worker[w].pc \in {"acquire", "execute"}
    /\ worker[w].retry_count = max_retries - 1
    /\ worker'[w].pc = "prepare"
    /\ worker'[w].i = 0

SumsHeld(w) ==
    {worker[w].executed_operations[j].op : j \in 1 .. Len(worker[w].executed_operations)}
        \cup (IF worker[w].pc = "execute" THEN {Op(w)} ELSE {})

IsSum(op) == op.query_name \in {"sum", "sum_version"}

IsWrite(op) == op.query_name \in {"insert", "update", "delete"}

C28_OneLockManager ==
    /\ singleton.constructed <= 1
    /\ \A t, u \in Callers :
           (singleton.call[t].returned # None /\ singleton.call[u].returned # None)
               => singleton.call[t].returned = singleton.call[u].returned

\* The written slots of a page, in slot order.
Slots(p) == [s \in 1 .. p.num_records |-> Page_read(p, s - 1)]

\* C29: num_records of the page never exceeds 512; a write on a page that holds
\* 512 values returns false and leaves num_records and data as they were; any
\* other write returns true, adds one to num_records, and afterwards read of the
\* slot that was num_records returns the value and read of every earlier slot
\* returns what it returned before. The slots read in order are the sequence the
\* table model keeps for the page.
C29_PageWrite ==
    /\ [](one_page.page.num_records <= PageCapacity)
    /\ [][one_page' # one_page =>
             LET p == one_page.page
                 q == one_page'.page
                 call == one_page'.written[Len(one_page'.written)]
             IN  /\ IF p.num_records = PageCapacity
                    THEN call.result = FALSE /\ q = p
                    ELSE /\ call.result = TRUE
                         /\ q.num_records = p.num_records + 1
                         /\ Page_read(q, p.num_records) = call.value
                         /\ \A s \in 0 .. p.num_records - 1 :
                                Page_read(q, s) = Page_read(p, s)
                 /\ Slots(q) = PageWrite(Slots(p), call.value)]_vars

\* The page was filled by a write that returned true and a later write returned
\* false.
C29_Witness ==
    /\ one_page.page.num_records = PageCapacity
    /\ \E i, j \in 1 .. Len(one_page.written) :
           /\ i < j
           /\ one_page.written[i].result
           /\ ~one_page.written[j].result
           /\ one_page.written[i].value < 0

\* The rids of the page directory whose primary-key column currently holds a
\* value of lo .. hi.
LiveInRange(tbl, lo, hi) ==
    {r \in DOMAIN tbl.page_directory :
        read_column(tbl, key, tbl.page_directory[r][key + 1]) \in lo .. hi}

\* The total of the current values of column c over the records of rids.
RECURSIVE ColumnTotal(_, _, _)
ColumnTotal(tbl, rids, c) ==
    IF rids = {} THEN 0
    ELSE LET r == CHOOSE x \in rids : TRUE
         IN  read_column(tbl, c, tbl.page_directory[r][c + 1])
                 + ColumnTotal(tbl, rids \ {r}, c)

\* C31: in every state, for every range lo .. hi and column c, sum(lo, hi, c)
\* returns the total of column c over the records of the page directory whose
\* primary-key column currently holds a value of the range, and false when there
\* is no such record.
C31_SumOverLiveRecords ==
    \A lo \in Keys : \A hi \in lo .. MaxKey : \A c \in Cols :
        Query_sum(table, lo, hi, c)
            = IF LiveInRange(table, lo, hi) = {} THEN None
              ELSE Some(ColumnTotal(table, LiveInRange(table, lo, hi), c))

\* C32: in every state, for every key k and every other value k2 that the
\* primary-key column of a record other than the one update(k, ...) works on
\* currently holds, update(k, key column := k2) returns false and leaves the table
\* (base pages, tail pages, page directory, version chain) as it was.
C32_KeyRewriteToExistingKeyRefused ==
    \A k \in Keys : \A k2 \in Keys \ {k} :
        \A rid \in {Index_locate(table, key, k)} :
            (LiveRids(table, k2) \ {r \in DOMAIN table.page_directory : rid = Some(r)} # {})
                => \A u \in {Query_update(table, k, SetKey(k2))} :
                       /\ ~u.result
                       /\ u.table = table

\* The positions of two updates of the same key in what worker w has executed.
UpdatedTwice(w) ==
    {p \in (1 .. Len(worker[w].executed_operations)) \X (1 .. Len(worker[w].executed_operations)) :
        /\ p[1] < p[2]
        /\ worker[w].executed_operations[p[1]].op.query_name = "update"
        /\ worker[w].executed_operations[p[2]].op.query_name = "update"
        /\ worker[w].executed_operations[p[1]].op.k = worker[w].executed_operations[p[2]].op.k}

\* C33: the operations a running transaction has executed are the first
\* operations of its list, in list order; and when a transaction that has updated
\* the same key twice aborts, select shows for that key, after run() returned,
\* the values the record held when the transaction locked it (before its first
\* update).
C33_AbortUndoesInReverseOrder ==
    /\ [](\A w \in Workers : Active(w) =>
             /\ Len(worker[w].executed_operations) = worker[w].i
             /\ \A j \in 1 .. worker[w].i :
                    worker[w].executed_operations[j].op = Txn(w)[j])
    /\ [][\A w \in Workers : Aborted(w) =>
             \A p \in UpdatedTwice(w) :
                 Selected(table', worker[w].executed_operations[p[1]].op.k)
                     = hist[w].locked[worker[w].executed_operations[p[1]].op.k]]_vars

\* One value more than the table has columns: the key column kept, every other
\* position None or a value.
TooManyColumns ==
    {columns \in [1 .. num_columns + 1 -> {None, Some(7)}] : columns[key + 1] = None}

\* C34: in every state, for every key and every argument list, also one with more
\* values than columns, an update that returns false leaves the table (base pages,
\* tail pages, page directory, version chain) as it was before the call.
C34_FailedUpdateChangesNothing ==
    \A k \in TxnKeys : \A columns \in UpdateArguments(k) \cup TooManyColumns :
        \A r \in {Query_update(table, k, columns)} :
            ~r.result => r.table = table

\* The workers whose list is the one transaction that increments key 1.
Incrementers == {w \in Workers : queries[w] = <<Increment>>}

\* Worker w has executed an increment in its running transaction.
HasIncremented(w) ==
    \E j \in 1 .. Len(worker[w].executed_operations) :
        worker[w].executed_operations[j].op.query_name = "increment"

\* C35: when the workers' transactions each increment column 1 of key 1 and all
\* have committed, the column is higher than in the initial table by the number
\* of these transactions; and when a transaction that runs with no concurrent
\* activity and has executed an increment aborts, select shows for every key,
\* after run() returned, what it showed when run() was called.
C35_IncrementsIsolated ==
    /\ []((/\ AllFinished
           /\ \A w \in Workers : queries[w] \in {<<>>, <<Increment>>}
           /\ \A w \in Incrementers : worker[w].stats = <<TRUE>>)
              => Selected(table, 1)[1][2]
                     = Selected(InitialTable, 1)[1][2] + Cardinality(Incrementers))
    /\ [][\A w \in Workers :
             (Alone(w) /\ Aborted(w) /\ HasIncremented(w))
                 => Visible(table') = hist[w].before]_vars

\* C36: a transaction run alone on the table with key column KeyColumn and on
\* the table with key column 0 that holds the same records with the two columns
\* exchanged has the same outcome on both: at every pass of run() the same
\* record ids have been locked (an insert locks the id of the record's primary
\* key), run() returns the same value, and select shows the same record for
\* every key (an aborted update or delete is rolled back on both tables).
C36_KeyColumnIndependent ==
    /\ keyed.run[KeyColumn].locked = keyed.run[key].locked
    /\ \A j \in 1 .. Len(keyed.run[KeyColumn].locked) :
           keyed.run[KeyColumn].locked[j] = get_record_id(keyed.txn[j].k)
    /\ keyed.run[KeyColumn].returned = keyed.run[key].returned
    /\ Visible(keyed.run[KeyColumn].table) = Visible(keyed.run[key].table)

\* The projected_columns_index lists.
Projections == [1 .. num_columns -> {0, 1}]

\* C37: for a record that received h >= 1 updates, select_version with
\* relative_version = -j, j > h, returns what it returns with relative_version
\* = -h; for a record that received no update, select_version with every
\* relative_version <= 0 returns the record select returns (the base values).
C37_SelectVersionClamps ==
    \A k \in Keys : \A projected \in Projections :
        IF k \in DOMAIN versions /\ HistoryLength(k) >= 1
        THEN \A oldest \in {Query_select_version(table, k, key, projected, -HistoryLength(k))} :
             \A j \in (HistoryLength(k) + 1) .. (MaxVersions + 1) :
                 Query_select_version(table, k, key, projected, -j) = oldest
        ELSE \A current \in {Query_select(table, k, key, projected)} :
             \A j \in 0 .. (MaxVersions + 1) :
                 Query_select_version(table, k, key, projected, -j) = current

\* A record updated twice, whose oldest version differs from the versions after
\* it and is what a relative_version older than the chain returns, beside a
\* record that was never updated.
C37_Witness ==
    /\ \E k \in DOMAIN versions :
           /\ HistoryLength(k) = 2
           /\ SelectedVersion(table, k, 5) = <<versions[k][1]>>
           /\ SelectedVersion(table, k, 5) # SelectedVersion(table, k, 1)
           /\ SelectedVersion(table, k, 5) # SelectedVersion(table, k, 0)
    /\ \E k \in Keys : k \notin DOMAIN versions \/ HistoryLength(k) = 0

\* The keys of lo .. hi that the primary-key column of a record of the page
\* directory currently holds.
LiveKeys(tbl, lo, hi) == {k \in lo .. hi : LiveRids(tbl, k) # {}}

\* The total over keys of column c of the record select_version returns for the
\* key at relative_version (nothing for a key it returns no record for).
RECURSIVE VersionTotal(_, _, _, _)
VersionTotal(tbl, keys, c, relative_version) ==
    IF keys = {} THEN 0
    ELSE LET k == CHOOSE x \in keys : TRUE
             records == Query_select_version(tbl, k, key, AllColumns, relative_version)
         IN  (IF records = <<>> THEN 0 ELSE Val(records[1].columns[c + 1]))
                 + VersionTotal(tbl, keys \ {k}, c, relative_version)

\* C38: in every state, for every range lo .. hi, column c and relative_version
\* v <= 0, sum_version(lo, hi, c, v) is the total over the live keys k of the
\* range of column c of the record select_version(k, key column, all columns, v)
\* returns, and false when the range has no live key.
C38_SumVersionAgreesWithSelectVersion ==
    \A lo \in Keys : \A hi \in lo .. MaxKey : \A c \in Cols :
        \A relative_version \in (0 - MaxVersions - 1) .. 0 :
            \A live \in {LiveKeys(table, lo, hi)} :
                /\ \A k \in live :
                       Query_select_version(table, k, key, AllColumns, relative_version) # <<>>
                /\ Query_sum_version(table, lo, hi, c, relative_version)
                       = IF live = {} THEN None
                         ELSE Some(VersionTotal(table, live, c, relative_version))

\* The rids of the reference map for the values of lo .. hi, in ascending order
\* of value.
RECURSIVE RidsOfRange(_, _, _)
RidsOfRange(reference, lo, hi) ==
    IF lo > hi THEN <<>>
    ELSE (IF lo \in DOMAIN reference THEN <<reference[lo]>> ELSE <<>>)
             \o RidsOfRange(reference, lo + 1, hi)

\* C39: after any sequence of inserts of pairs (value, rid) with distinct values,
\* locate(value) returns the rid inserted with the value and none for a value
\* never inserted, and locate_range(lo, hi) returns the rids inserted with the
\* values of lo .. hi, in ascending order of value.
C39_TreeAgreesWithReferenceMap ==
    /\ \A value \in 0 .. (MaxValue + 1) :
           /\ BPlusTree_locate(bplus_tree.tree, value)
                  = IF value \in DOMAIN bplus_tree.ref THEN <<bplus_tree.ref[value]>> ELSE <<>>
           /\ Index_locate([index |-> bplus_tree.tree], key, value)
                  = IF value \in DOMAIN bplus_tree.ref THEN Some(bplus_tree.ref[value]) ELSE None
    /\ \A lo \in 0 .. (MaxValue + 1) : \A hi \in lo .. (MaxValue + 1) :
           BPlusTree_locate_range(bplus_tree.tree, lo, hi)
               = RidsOfRange(bplus_tree.ref, lo, hi)

\* An internal node has been split (the root's children are internal nodes), and
\* a range over several leaves is asked for beside a value never inserted.
C39_Witness ==
    /\ ~bplus_tree.tree.nodes[bplus_tree.tree.root].is_leaf
    /\ \A c \in 1 .. Len(bplus_tree.tree.nodes[bplus_tree.tree.root].children) :
           ~bplus_tree.tree.nodes[bplus_tree.tree.nodes[bplus_tree.tree.root].children[c]].is_leaf
    /\ Len(BPlusTree_locate_range(bplus_tree.tree, 1, MaxValue)) >= 8
    /\ \E value \in Values : value \notin DOMAIN bplus_tree.ref

\* The entries the ledger of tid has for record_id, in ledger order.
EntriesFor(lm, tid, record_id) ==
    SelectSeq(Ledger(lm, tid), LAMBDA entry : entry[1] = record_id)

\* C40: between the calls of the lock manager, the ledger of a transaction has
\* an entry for a record exactly when the transaction is a shared or exclusive
\* holder of the record; and when a transaction that is a shared holder of a
\* record is granted the exclusive lock on it, its ledger afterwards has one
\* entry for the record, with mode EXCLUSIVE.
C40_LedgerConsistent ==
    \A tid \in LockTids, record_id \in LockRecords :
        /\ EntriesFor(lock_manager, tid, record_id) # <<>>
               <=> record_id \in Held(lock_manager, tid)
        /\ \A upgrade \in {acquire_exclusive(lock_manager, tid, record_id)} :
               (/\ record_id \in DOMAIN lock_manager.locks
                /\ tid \in lock_manager.locks[record_id].shared_holders
                /\ upgrade.success)
                   => /\ EntriesFor(upgrade.lm, tid, record_id) = <<<<record_id, "EXCLUSIVE">>>>
                      /\ record_id \in Held(upgrade.lm, tid)

\* A transaction that asked twice for the shared lock of a record (two SHARED
\* entries) is granted the upgrade, while it holds another record and a second
\* transaction holds nothing and has no ledger.
C40_Witness ==
    \E tid \in LockTids, record_id \in LockRecords :
    \E u \in LockTids \ {tid}, other \in LockRecords \ {record_id} :
        /\ EntriesFor(lock_manager, tid, record_id)
               = <<<<record_id, "SHARED">>, <<record_id, "SHARED">>>>
        /\ acquire_exclusive(lock_manager, tid, record_id).success
        /\ Held(lock_manager, u) = {}
        /\ u \notin DOMAIN lock_manager.transaction_locks
        /\ EntriesFor(lock_manager, u, other) = <<>>
====
